---- MODULE Spec2Model ----
(***************************************************************************)
(* Frontier-driven investigation engine of the detective agent:            *)
(* detective_agent.py (controller loop, frontier, dispatch, advisory       *)
(* adapter), artifact_extractor.py (hashing, scoring, per-document         *)
(* de-duplication) and llm_integration.py (_extract_json).                 *)
(*                                                                         *)
(* Text that the code inspects character by character (artifact content,   *)
(* domains, timestamps) is a sequence of one-character strings.  Locators  *)
(* and queries, which the code only compares, concatenates and tests with  *)
(* fixed predicates, are TLA+ strings.  SHA-256 is taken to be injective:  *)
(* a hash is represented by the normalised text it is computed from.       *)
(***************************************************************************)
EXTENDS Integers, Sequences, FiniteSets, TLC

(***************************************************************************)
(* Bounds of the model.                                                    *)
(***************************************************************************)
MaxIterationsBound == 3
MaxIdleBound == 2
MaxSnapshots == 6

-----------------------------------------------------------------------------
(***************************************************************************)
(* Text helpers (Python str operations used by the code).                  *)
(***************************************************************************)
Rep(c, n) == [i \in 1..n |-> c]

\* the characters of a string literal
Chars(s) == [i \in 1..Len(s) |-> SubSeq(s, i, i)]

\* the set of the characters of a string literal
CharSet(s) == {SubSeq(s, i, i) : i \in 1..Len(s)}

UPPERCASE == "ABCDEFGHIJKLMNOPQRSTUVWXYZ"
LOWERCASE == "abcdefghijklmnopqrstuvwxyz"
UpperToLower ==
    [c \in CharSet(UPPERCASE) |->
        SubSeq(LOWERCASE, CHOOSE k \in 1..26 : SubSeq(UPPERCASE, k, k) = c,
                         CHOOSE k \in 1..26 : SubSeq(UPPERCASE, k, k) = c)]

\* str.lower(), on ASCII text
LowerChar(c) == IF c \in DOMAIN UpperToLower THEN UpperToLower[c] ELSE c
Lower(s) == [i \in DOMAIN s |-> LowerChar(s[i])]

\* the characters matched by the regular expression \s
IsSpace(c) == c \in {" ", "\t", "\n", "\r"}
NotSpace(c) == ~IsSpace(c)

\* the character classes of the extractor's patterns
DIGITS == CharSet("0123456789")
HEX_DIGITS == CharSet("0123456789abcdefABCDEF")
LETTERS == CharSet(LOWERCASE) \cup CharSet(UPPERCASE)
ALNUM == LETTERS \cup DIGITS
IsHex(c) == c \in HEX_DIGITS
IsLetter(c) == c \in LETTERS
IsAlnum(c) == c \in ALNUM
IsWordChar(c) == c \in ALNUM \/ c = "_"
IsLetterOrSpace(c) == IsLetter(c) \/ IsSpace(c)
IsQuote(c) == c \in {"'", "\""}
NotQuote(c) == ~IsQuote(c)
NotNewline(c) == c # "\n"

\* sub in s
Contains(s, sub) ==
    \E i \in 0..(Len(s) - Len(sub)) :
        \A j \in 1..Len(sub) : s[i + j] = sub[j]

\* s.endswith(suf)
EndsWith(s, suf) ==
    /\ Len(suf) <= Len(s)
    /\ \A j \in 1..Len(suf) : s[Len(s) - Len(suf) + j] = suf[j]

\* code points of the characters that occur in dates and timestamps
Ord(c) ==
    CASE c = "-" -> 45 [] c = "0" -> 48 [] c = "1" -> 49 [] c = "2" -> 50
      [] c = "3" -> 51 [] c = "4" -> 52 [] c = "5" -> 53 [] c = "6" -> 54
      [] c = "7" -> 55 [] c = "8" -> 56 [] c = "9" -> 57

\* a < b on Python strings (lexicographic by code point)
StrLess(a, b) ==
    \E k \in 1..(Len(b)) :
        /\ \A j \in 1..(k - 1) : j <= Len(a) /\ a[j] = b[j]
        /\ \/ k = Len(a) + 1
           \/ k <= Len(a) /\ Ord(a[k]) < Ord(b[k])

\* the least and the greatest member of a non-empty set of positions
Least(positions) == CHOOSE k \in positions : \A o \in positions : k <= o
Greatest(positions) == CHOOSE k \in positions : \A o \in positions : o <= k

\* the least j >= i with j past the end of t or t[j] outside the class P
SkipWhile(t, i, P(_)) ==
    CHOOSE j \in i..(Len(t) + 1) :
        /\ j = Len(t) + 1 \/ ~P(t[j])
        /\ \A k \in i..(j - 1) : P(t[k])

\* the literal w stands in t at position i
LiteralAt(t, i, w) ==
    /\ i + Len(w) - 1 <= Len(t)
    /\ \A k \in 1..Len(w) : t[i + k - 1] = w[k]
\* the same with re.IGNORECASE, for a literal w in lower case
LiteralAtIgnoreCase(t, i, w) ==
    /\ i + Len(w) - 1 <= Len(t)
    /\ Lower(SubSeq(t, i, i + Len(w) - 1)) = w

\* n characters of the class P stand in t from position i
RunAt(t, i, n, P(_)) ==
    /\ i + n - 1 <= Len(t)
    /\ \A k \in 0..(n - 1) : P(t[i + k])

\* str.split(): the maximal runs of non-whitespace
RECURSIVE SplitFrom(_, _)
WordTo(t, s, e) == <<SubSeq(t, s, e - 1)>> \o SplitFrom(t, e)
WordFrom(t, s) == IF s > Len(t) THEN <<>> ELSE WordTo(t, s, SkipWhile(t, s, NotSpace))
SplitFrom(t, i) == WordFrom(t, SkipWhile(t, i, IsSpace))
Split(t) == SplitFrom(t, 1)

\* str.strip()
Strip(t) ==
    LET Between(s, last) == IF last = {} THEN <<>> ELSE SubSeq(t, s, Greatest(last))
    IN  Between(SkipWhile(t, 1, IsSpace), {k \in 1..Len(t) : NotSpace(t[k])})

\* ' '.join(words)
RECURSIVE Join(_)
Join(words) ==
    IF words = <<>> THEN <<>>
    ELSE IF Len(words) = 1 THEN words[1]
    ELSE words[1] \o <<" ">> \o Join(Tail(words))

-----------------------------------------------------------------------------
(***************************************************************************)
(* artifact_extractor.py: configuration.                                   *)
(***************************************************************************)
TRUSTED_DOMAINS ==
    { <<"e", "t", "h", "e", "r", "e", "u", "m", ".", "o", "r", "g">>,
      <<"e", "t", "h", "e", "r", "e", "u", "m", ".", "f", "o", "u", "n", "d", "a", "t", "i", "o", "n">>,
      <<"e", "i", "p", "s", ".", "e", "t", "h", "e", "r", "e", "u", "m", ".", "o", "r", "g">>,
      <<"b", "l", "o", "g", ".", "e", "t", "h", "e", "r", "e", "u", "m", ".", "o", "r", "g">>,
      <<"v", "i", "t", "a", "l", "i", "k", ".", "c", "a">> }

COMMUNITY_DOMAINS ==
    { <<"m", "e", "d", "i", "u", "m", ".", "c", "o", "m">>,
      <<"h", "a", "c", "k", "e", "r", "n", "o", "o", "n", ".", "c", "o", "m">>,
      <<"r", "e", "d", "d", "i", "t", ".", "c", "o", "m">>,
      <<"g", "i", "t", "h", "u", "b", ".", "c", "o", "m">>,
      <<"s", "t", "e", "e", "m", "i", "t", ".", "c", "o", "m">>,
      <<"m", "i", "r", "r", "o", "r", ".", "x", "y", "z">> }

WARNING_PHRASES ==
    { <<"d", "o", " ", "n", "o", "t", " ", "u", "s", "e", " ", "i", "n", " ", "p", "r", "o", "d", "u", "c", "t", "i", "o", "n">>,
      <<"e", "x", "a", "m", "p", "l", "e", " ", "o", "n", "l", "y">>,
      <<"n", "o", "t", " ", "f", "o", "r", " ", "p", "r", "o", "d", "u", "c", "t", "i", "o", "n">>,
      <<"t", "e", "s", "t", " ", "k", "e", "y">>,
      <<"s", "a", "m", "p", "l", "e", " ", "k", "e", "y">>,
      <<"d", "u", "m", "m", "y", " ", "k", "e", "y">>,
      <<"d", "o", " ", "n", "o", "t", " ", "u", "s", "e">>,
      <<"f", "o", "r", " ", "t", "e", "s", "t", "i", "n", "g">> }

\* BIP39_WORDS (the abbreviated list of the source)
BIP39_WORDS ==
    { Chars(w) : w \in {
      "abandon", "ability", "able", "about", "above", "absent", "absorb",
      "abstract", "absurd", "abuse", "access", "accident", "account",
      "accuse", "achieve", "acid", "acoustic", "acquire", "across", "act",
      "action", "actor", "actress", "actual", "adapt", "add", "addict",
      "address", "adjust", "admit", "adult", "advance", "advice", "aerobic",
      "affair", "afford", "afraid", "again", "age", "agent", "agree",
      "ahead", "aim", "air", "airport", "aisle", "alarm", "album", "alcohol",
      "alert", "alien", "all", "alley", "allow", "almost", "alone", "alpha",
      "already", "also", "alter", "always", "amateur", "amazing", "among",
      "amount", "amused", "analyst", "anchor", "ancient", "anger", "angle",
      "angry", "animal", "ankle", "announce", "annual", "another", "answer",
      "antenna", "antique", "anxiety", "any", "apart", "apology", "appear",
      "apple", "approve", "april", "arch", "arctic", "area", "arena",
      "argue", "arm", "armed", "armor", "army", "around", "arrange",
      "arrest", "arrive", "arrow", "art", "artefact", "artist", "artwork",
      "ask", "aspect", "assault", "asset", "assist", "assume", "asthma",
      "athlete", "atom", "attack", "attend", "attitude", "attract",
      "auction", "audit", "august", "aunt", "author", "auto", "autumn",
      "average", "avocado", "avoid", "awake", "aware", "away", "awesome",
      "awful", "awkward", "axis", "wrong", "yellow", "zebra", "zoo" } }

\* the word counts of a BIP-39 phrase
PHRASE_LENGTHS == {12, 15, 18, 21, 24}

-----------------------------------------------------------------------------
(***************************************************************************)
(* artifact_extractor.py: the patterns of the artifact families.  A match  *)
(* is [ok, group, note, end]: group is the text the family takes from the  *)
(* match, end the position where the next search starts.                   *)
(***************************************************************************)
NoMatch == [ok |-> FALSE, group |-> <<>>, note |-> <<>>, end |-> 0]
Matched(group, note, end) == [ok |-> TRUE, group |-> group, note |-> note, end |-> end]

\* 0x[0-9a-fA-F]{40}
AddressAt(t, i) ==
    IF LiteralAt(t, i, <<"0", "x">>) /\ RunAt(t, i + 2, 40, IsHex)
    THEN Matched(SubSeq(t, i, i + 41), <<>>, i + 42)
    ELSE NoMatch

\* 0x[0-9a-fA-F]{64}
HexKeyAt(t, i) ==
    IF LiteralAt(t, i, <<"0", "x">>) /\ RunAt(t, i + 2, 64, IsHex)
    THEN Matched(SubSeq(t, i, i + 65), <<>>, i + 66)
    ELSE NoMatch

\* (?:\s*[:=])?\s* from position e: the position it ends at
AfterSeparator(t, e) ==
    LET Separator(s) ==
            IF s <= Len(t) /\ t[s] \in {":", "="}
            THEN SkipWhile(t, s + 1, IsSpace)
            ELSE s
    IN  Separator(SkipWhile(t, e, IsSpace))

\* (?:'|")? from position q: the position it ends at
AfterQuote(t, q) == IF q <= Len(t) /\ IsQuote(t[q]) THEN q + 1 ELSE q

\* first\s*second (min_space = 0) or first\s+second (min_space = 1) at
\* position i, case ignored: the position after it, 0 when it is not there
TwoWordsEnd(t, i, first, second, min_space) ==
    LET Second(s) ==
            IF s - (i + Len(first)) >= min_space /\ LiteralAtIgnoreCase(t, s, second)
            THEN s + Len(second)
            ELSE 0
    IN  IF LiteralAtIgnoreCase(t, i, first)
        THEN Second(SkipWhile(t, i + Len(first), IsSpace))
        ELSE 0

\* an alternation: the end of the first alternative that is there, 0 when
\* none is (ends[k] is where alternative k ends, 0 when it is not there)
AlternationEnd(ends) ==
    LET there == {k \in DOMAIN ends : ends[k] # 0}
    IN  IF there = {} THEN 0 ELSE ends[Least(there)]

\* (?:private\s*key|secret\s*key|key), case ignored
KEY_LABELS == <<"private", "secret">>
KeyLabelEnd(t, i) ==
    AlternationEnd([k \in DOMAIN KEY_LABELS |->
                       TwoWordsEnd(t, i, Chars(KEY_LABELS[k]), Chars("key"), 0)]
                   \o <<IF LiteralAtIgnoreCase(t, i, Chars("key")) THEN i + 3 ELSE 0>>)

\* (?:private\s*key|secret\s*key|key)(?:\s*[:=])?\s*(?:'|")?([0-9a-fA-F]{64})(?:'|")?
LabeledKeyAt(t, i) ==
    LET Key(q) ==
            IF RunAt(t, q, 64, IsHex)
            THEN Matched(SubSeq(t, q, q + 63), <<>>, AfterQuote(t, q + 64))
            ELSE NoMatch
        Label(e) == IF e = 0 THEN NoMatch ELSE Key(AfterQuote(t, AfterSeparator(t, e)))
    IN  Label(KeyLabelEnd(t, i))

\* (?:mnemonic|seed\s+phrase|recovery\s+phrase|backup\s+phrase), case ignored
SEED_LABELS == <<"seed", "recovery", "backup">>
SeedLabelEnd(t, i) ==
    AlternationEnd(<<IF LiteralAtIgnoreCase(t, i, Chars("mnemonic")) THEN i + 8 ELSE 0>>
                   \o [k \in DOMAIN SEED_LABELS |->
                          TwoWordsEnd(t, i, Chars(SEED_LABELS[k]), Chars("phrase"), 1)])

\* (?:...)(?:\s*[:=])?\s*(?:'|")?([a-z\s]+)(?:'|")? with re.IGNORECASE: the
\* group is the longest run of letters and whitespace; when no letter
\* follows, the \s* before the group gives its last character back to it
LabeledPhraseAt(t, i) ==
    LET Group(e, s, q, r) ==
            IF r > q THEN Matched(SubSeq(t, q, r - 1), <<>>, AfterQuote(t, r))
            ELSE IF s > e /\ IsSpace(t[s - 1])
            THEN Matched(<<t[s - 1]>>, <<>>, AfterQuote(t, s))
            ELSE NoMatch
        Quote(e, s, q) == Group(e, s, q, SkipWhile(t, q, IsLetterOrSpace))
        Separator(e, s) == Quote(e, s, AfterQuote(t, s))
        Label(e) == IF e = 0 THEN NoMatch ELSE Separator(e, AfterSeparator(t, e))
    IN  Label(SeedLabelEnd(t, i))

\* the position after the '}' that closes the first '{' at or after i, 0 when
\* the braces never balance ('for j in range(start_pos, len(code_text))')
\* (the characters that are no brace leave the count alone: the loop is
\* followed from one brace to the next)
RECURSIVE BraceEnd(_, _, _)
BraceEnd(t, j, open_braces) ==
    LET braces == {i \in j..Len(t) : t[i] \in {"{", "}"}}
        Brace(b) ==
            IF t[b] = "{" THEN BraceEnd(t, b + 1, open_braces + 1)
            ELSE IF open_braces - 1 = 0 THEN b + 1
            ELSE BraceEnd(t, b + 1, open_braces - 1)
    IN  IF braces = {} THEN 0 ELSE Brace(Least(braces))

\* contract\s+(\w+)\s*{ : the group is the contract name
ContractAt(t, i) ==
    LET Brace(n, w, b) ==
            IF w > n /\ LiteralAt(t, b, <<"{">>)
            THEN Matched(SubSeq(t, n, w - 1), i, b + 1)
            ELSE NoMatch
        Name(n, w) == Brace(n, w, SkipWhile(t, w, IsSpace))
        Space(n) == IF n > i + 8 THEN Name(n, SkipWhile(t, n, IsWordChar)) ELSE NoMatch
    IN  IF LiteralAt(t, i, Chars("contract"))
        THEN Space(SkipWhile(t, i + 8, IsSpace))
        ELSE NoMatch

\* https?:// at position i: the position after it, 0 when it is not there
SchemeEnd(t, i) ==
    IF LiteralAt(t, i, Chars("https://")) THEN i + 8
    ELSE IF LiteralAt(t, i, Chars("http://")) THEN i + 7
    ELSE 0

\* https?://[^"']*<host>([...]{n,}) : the last place in the quote-free run
\* after the scheme where the host and at least n characters of the class stand
EndpointAt(t, i, host, n, exact, P(_)) ==
    LET Group(g, h) == Matched(SubSeq(t, g, h - 1), <<>>, h)
        Key(g) == Group(g, IF exact THEN g + n ELSE SkipWhile(t, g, P))
        Last(places) ==
            IF places = {} THEN NoMatch ELSE Key(Greatest(places) + Len(host))
        Run(p, r) ==
            Last({j \in p..r : LiteralAt(t, j, host) /\ RunAt(t, j + Len(host), n, P)})
        Scheme(p) == IF p = 0 THEN NoMatch ELSE Run(p, SkipWhile(t, p, NotQuote))
    IN  Scheme(SchemeEnd(t, i))

\* https?://[^"']*infura\.io/v3/([0-9a-fA-F]{32})
InfuraAt(t, i) == EndpointAt(t, i, Chars("infura.io/v3/"), 32, TRUE, IsHex)

\* https?://[^"']*alchemy\.com/v2/([0-9a-zA-Z]{32,})
AlchemyAt(t, i) == EndpointAt(t, i, Chars("alchemy.com/v2/"), 32, FALSE, IsAlnum)

\* (?:etherscan|ETHERSCAN).*?(?:apikey|ApiKey|APIKEY).*?['"]([A-Za-z0-9]{34,})['"]
\* the lazy .*? take the first places, on the same line, that let the rest match
ETHERSCAN_WORDS == {"apikey", "ApiKey", "APIKEY"}
EtherscanAt(t, i) ==
    LET Word(a) == \E w \in ETHERSCAN_WORDS : LiteralAt(t, a, Chars(w))
        Closed(b, h) == h - (b + 1) >= 34 /\ h <= Len(t) /\ IsQuote(t[h])
        Key(b) == IsQuote(t[b]) /\ Closed(b, SkipWhile(t, b + 1, IsAlnum))
        Group(b, h) == Matched(SubSeq(t, b + 1, h - 1), <<>>, h + 1)
        KeyAt(b) == Group(b, SkipWhile(t, b + 1, IsAlnum))
        After(places, first_word) == KeyAt(Least({b \in places : b >= first_word + 6}))
        Words(places, line_end) ==
            {a \in (i + 9)..line_end : Word(a) /\ \E b \in places : b >= a + 6}
        First(places, line_end) ==
            IF places = {} THEN NoMatch
            ELSE After(places, Least(Words(places, line_end)))
        Line(line_end) ==
            First({b \in (i + 9)..(line_end - 1) :
                      Key(b) /\ \E a \in (i + 9)..(b - 6) : Word(a)},
                  line_end)
    IN  IF \E w \in {"etherscan", "ETHERSCAN"} : LiteralAt(t, i, Chars(w))
        THEN Line(SkipWhile(t, i + 9, NotNewline))
        ELSE NoMatch

\* re.finditer: the matches of a pattern from left to right, each search
\* starting where the previous match ended
RECURSIVE Scan(_, _)
Following(at, m) == <<m>> \o Scan(at, m.end)
FirstOf(at, starts) ==
    IF starts = {} THEN <<>>
    ELSE Following(at, at[Least(starts)])
Scan(at, i) == FirstOf(at, {j \in i..Len(at) : at[j].ok})
FindIter(PatternAt(_, _), t, i) == Scan([j \in 1..Len(t) |-> PatternAt(t, j)], i)

-----------------------------------------------------------------------------
(***************************************************************************)
(* artifact_extractor.py: the pattern families.  A parsed document (soup)  *)
(* is the sequence of its elements in document order; each family gives    *)
(* the matches it would turn into artifacts, in the order it meets them.   *)
(***************************************************************************)
\* what json.loads gives for the text of an element
NOT_JSON == [kind |-> "invalid", version |-> 0, address |-> <<>>]
JsonObject(version, address) ==
    [kind |-> "object", version |-> version, address |-> address]

Element(tag, text) == [tag |-> tag, text |-> text, json |-> NOT_JSON]
JsonElement(tag, text, json) == [tag |-> tag, text |-> text, json |-> json]

RECURSIVE Flatten(_)
Flatten(lists) ==
    IF lists = <<>> THEN <<>> ELSE Head(lists) \o Flatten(Tail(lists))

\* soup.get_text()
get_text(soup) == Flatten([k \in DOMAIN soup |-> soup[k].text])

\* soup.find_all(['pre', 'code']) and soup.find_all(['p', 'pre', 'code'])
IsCodeBlock(element) == element.tag \in {"pre", "code"}
IsTextBlock(element) == element.tag \in {"p", "pre", "code"}
code_blocks(soup) == SelectSeq(soup, IsCodeBlock)

\* len(html_content): the text of every element inside its tags
RECURSIVE HtmlLength(_)
HtmlLength(soup) ==
    IF soup = <<>> THEN 0
    ELSE 2 * Len(Chars(Head(soup).tag)) + 5 + Len(Head(soup).text)
         + HtmlLength(Tail(soup))

\* a match a family is about to turn into an artifact: the artifact's type
\* and content, and what else its summary is built from
Match(type, content, note) == [type |-> type, content |-> content, note |-> note]

\* the first groups of the matches of a pattern, each one a match of the family
Groups(type, matches, note) ==
    [k \in DOMAIN matches |-> Match(type, matches[k].group, note)]

\* extract_solidity_contracts: the contracts of one code block
ContractCode(code_text, closed) ==
    [k \in DOMAIN closed |->
        Match("solidity_contract",
              SubSeq(code_text, closed[k].note,
                     BraceEnd(code_text, closed[k].note, 0) - 1),
              closed[k].group)]
ContractsIn(code_text) ==
    LET Closed(m) == BraceEnd(code_text, m.note, 0) > m.note
    IN  ContractCode(code_text, SelectSeq(FindIter(ContractAt, code_text, 1), Closed))

extract_solidity_contracts(soup) ==
    LET blocks == code_blocks(soup)
    IN  Flatten([k \in DOMAIN blocks |-> ContractsIn(blocks[k].text)])

\* extract_wallet_addresses
extract_wallet_addresses(soup) ==
    Groups("wallet_address", FindIter(AddressAt, get_text(soup), 1), <<>>)

\* extract_private_keys: the labeled keys, then the 0x-prefixed ones
extract_private_keys(soup) ==
    Groups("private_key", FindIter(LabeledKeyAt, get_text(soup), 1), <<>>)
    \o Groups("private_key", FindIter(HexKeyAt, get_text(soup), 1), <<>>)

\* str.find and str.rfind of one character, counted from 1 (0: absent)
Find(t, c) ==
    IF \E k \in DOMAIN t : t[k] = c
    THEN CHOOSE k \in DOMAIN t : t[k] = c /\ \A o \in 1..(k - 1) : t[o] # c
    ELSE 0
RFind(t, c) ==
    IF \E k \in DOMAIN t : t[k] = c
    THEN CHOOSE k \in DOMAIN t : t[k] = c /\ \A o \in (k + 1)..Len(t) : t[o] # c
    ELSE 0

\* extract_json_keystores: the keystore of one code block
KeystoreIn(block) ==
    LET code_text == block.text
        lowered == Lower(code_text)
        start_idx == Find(code_text, "{")
        end_idx == RFind(code_text, "}") + 1
    IN  IF /\ Contains(lowered, Chars("crypto"))
           /\ Contains(lowered, Chars("cipher"))
           /\ Contains(lowered, Chars("kdf"))
           /\ Contains(lowered, Chars("address"))
           /\ start_idx >= 1
           /\ end_idx > start_idx
           /\ block.json.kind = "object"
           /\ block.json.version = 3
        THEN <<Match("ethereum_keystore",
                     SubSeq(code_text, start_idx, end_idx - 1),
                     block.json.address)>>
        ELSE <<>>

extract_json_keystores(soup) ==
    LET blocks == code_blocks(soup)
    IN  Flatten([k \in DOMAIN blocks |-> KeystoreIn(blocks[k])])

\* len(words) in [12, 15, 18, 21, 24] and all(word in BIP39_WORDS ...)
InWordlist(word) == word \in BIP39_WORDS
HasPhraseLength(words) == Len(words) \in PHRASE_LENGTHS
IsPhrase(words) ==
    /\ Len(words) \in PHRASE_LENGTHS
    /\ \A k \in DOMAIN words : InWordlist(words[k])

\* match.group(1).strip().lower()
PhraseText(m) == Lower(Strip(m.group))

\* extract_seed_phrases, first pass: the labeled phrases of the text
PhraseOf(words, seed_phrase) == Match("seed_phrase", seed_phrase, Len(words))
LabeledPhrase(seed_phrase) == PhraseOf(Split(seed_phrase), seed_phrase)
PhrasesOf(accepted) == [k \in DOMAIN accepted |-> LabeledPhrase(PhraseText(accepted[k]))]
LabeledPhrases(text) ==
    LET Accepted(m) == IsPhrase(Split(PhraseText(m)))
    IN  PhrasesOf(SelectSeq(FindIter(LabeledPhraseAt, text, 1), Accepted))

\* extract_seed_phrases, second pass: the blocks whose words form a phrase
valid_words(block) == SelectSeq(Split(Lower(block.text)), InWordlist)
BlockPhrase(words) == PhraseOf(words, Join(words))
BlockPhrasesOf(accepted) == [k \in DOMAIN accepted |-> BlockPhrase(valid_words(accepted[k]))]
BlockPhrases(soup) ==
    LET Accepted(block) ==
            /\ Len(Split(Lower(block.text))) \in PHRASE_LENGTHS
            /\ Len(valid_words(block)) \in PHRASE_LENGTHS
    IN  BlockPhrasesOf(SelectSeq(SelectSeq(soup, IsTextBlock), Accepted))

extract_seed_phrases(soup) == LabeledPhrases(get_text(soup)) \o BlockPhrases(soup)

\* extract_api_keys: the keys of one code block, provider by provider
ProviderKeys(KeyAt(_, _), provider, code_text) ==
    Groups("api_key", FindIter(KeyAt, code_text, 1), provider)

ApiKeysIn(code_text) ==
    ProviderKeys(InfuraAt, Chars("Infura"), code_text)
    \o ProviderKeys(AlchemyAt, Chars("Alchemy"), code_text)
    \o ProviderKeys(EtherscanAt, Chars("Etherscan"), code_text)

extract_api_keys(soup) ==
    LET blocks == code_blocks(soup)
    IN  Flatten([k \in DOMAIN blocks |-> ApiKeysIn(blocks[k].text)])

\* the families in the order extract_artifacts_from_html runs them
Families(soup) ==
    extract_solidity_contracts(soup)
    \o extract_wallet_addresses(soup)
    \o extract_private_keys(soup)
    \o extract_json_keystores(soup)
    \o extract_seed_phrases(soup)
    \o extract_api_keys(soup)

-----------------------------------------------------------------------------
(***************************************************************************)
(* Fetched pages of the model.  A page is what fetch_page returns: an      *)
(* exception, empty content, or a document; a document is given by its     *)
(* elements, with its length and the matches of the families computed      *)
(* from them.                                                              *)
(***************************************************************************)
Document(soup) ==
    [status |-> "ok", length |-> HtmlLength(soup), soup |-> soup,
     matches |-> Families(soup)]

PAGE_RAISE == [status |-> "raise", length |-> 0, soup |-> <<>>, matches |-> <<>>]
PAGE_EMPTY == [status |-> "empty", length |-> 0, soup |-> <<>>, matches |-> <<>>]

RECURSIVE RepSeq(_, _)
RepSeq(s, n) == IF n = 0 THEN <<>> ELSE s \o RepSeq(s, n - 1)

\* artifact contents: an address in two spellings, a seed phrase of twelve
\* BIP-39 words in two spacings, keys
ART == Chars("art")
ADDR_LOWER == Chars("0x") \o Rep("a", 40)
ADDR_UPPER == Chars("0x") \o Rep("A", 40)
PHRASE == ART \o RepSeq(<<" ">> \o ART, 11)
PHRASE_WS == ART \o <<" ", " ">> \o ART \o RepSeq(<<" ">> \o ART, 10)
PHRASE_ZOO == Chars("zoo") \o RepSeq(<<" ">> \o ART, 11)
KEY_HEX == Rep("b", 64)
KEY_QUOTED == Rep("D", 64)
KEY_PREFIXED == Chars("0x") \o Rep("c", 64)
INFURA_KEY == Rep("1", 32)
ALCHEMY_KEY == Rep("g", 32)
ETHERSCAN_KEY == Rep("K", 34)
KEYSTORE_ADDRESS == Rep("e", 40)
ADDR_OF_KEY == SubSeq(KEY_PREFIXED, 1, 42)
PHRASE_LONG == ART \o RepSeq(<<" ">> \o ART, 14)
PHRASE_SEED == Chars("seed") \o RepSeq(<<" ">> \o ART, 11)
CONTRACT_CODE ==
    Chars("contract Wallet {\n  // do not use in production\n  function pay() { }\n}")
\* a contract that holds a key in its code, short enough for its summary to
\* stay whole
CONTRACT_KEYED == Chars("contract V { bytes32 k = ") \o KEY_PREFIXED \o Chars("; }")
KEYSTORE_JSON ==
    Chars("{\"version\": 3, \"address\": \"") \o KEYSTORE_ADDRESS
    \o Chars("\", \"crypto\": {\"cipher\": \"aes-128-ctr\", \"kdf\": \"scrypt\"}}")

\* text that no family matches
FILLER == Element("div", Rep(".", 100))

DOC_PLAIN == Document(<<FILLER>>)
DOC_SHORT == Document(<<Element("p", ADDR_LOWER)>>)
DOC_ADDR == Document(<<FILLER, Element("p", Chars("wallet ") \o ADDR_LOWER)>>)
DOC_ADDR_UPPER ==
    Document(<<FILLER,
               Element("p", ADDR_UPPER \o <<" ">> \o ADDR_LOWER),
               Element("p", PHRASE)>>)
DOC_PHRASE_WS == Document(<<FILLER, Element("p", Chars("mnemonic: ") \o PHRASE_WS)>>)
DOC_CONTRACT_WARNED ==
    Document(<<FILLER,
               Element("pre", CONTRACT_CODE \o <<"\n">>)>>)
DOC_CONTRACT_KEYED ==
    Document(<<FILLER,
               Element("pre", CONTRACT_KEYED \o <<"\n">>)>>)
DOC_KEY_WARNED ==
    Document(<<FILLER,
               Element("p", Chars("example only - private key: ") \o KEY_HEX)>>)
DOC_KEYS ==
    Document(<<FILLER,
               Element("p", Chars("secret key = '") \o KEY_QUOTED \o Chars("' and ") \o KEY_PREFIXED),
               Element("p", Chars("; KEY:") \o Lower(KEY_QUOTED))>>)
DOC_KEYSTORE ==
    Document(<<FILLER,
               JsonElement("pre",
                   Chars("keystore: ") \o KEYSTORE_JSON \o Chars(" (sample key)"),
                   JsonObject(3, KEYSTORE_ADDRESS)),
               JsonElement("code",
                   Chars("{\"version\": 1, \"address\": \"00\", \"crypto\": {\"cipher\": \"\", \"kdf\": \"\"}}"),
                   JsonObject(1, Chars("00")))>>)
DOC_API ==
    Document(<<FILLER,
               Element("code",
                   Chars("url = https://mainnet.infura.io/v3/") \o INFURA_KEY
                   \o Chars("\nrpc = https://eth-mainnet.alchemy.com/v2/") \o ALCHEMY_KEY
                   \o Chars("\nETHERSCAN_APIKEY = '") \o ETHERSCAN_KEY \o Chars("'\n"))>>)
DOC_SEED_LABELED ==
    Document(<<FILLER,
               Element("p", Chars("Seed Phrase : ") \o PHRASE_ZOO),
               Element("div", Chars("."))>>)
DOC_SEED_REJECTED ==
    Document(<<FILLER,
               Element("p", Chars("mnemonic: ") \o PHRASE \o <<" ">> \o ART),
               Element("div", Chars("; ")),
               Element("p", Chars("recovery phrase: ") \o PHRASE_SEED)>>)
DOC_SEED_IN_PROSE ==
    Document(<<FILLER,
               Element("p", Chars("art art art backup phrase = ") \o PHRASE)>>)

DOCUMENTS ==
    {DOC_PLAIN, DOC_SHORT, DOC_ADDR, DOC_ADDR_UPPER, DOC_PHRASE_WS,
     DOC_CONTRACT_WARNED, DOC_KEY_WARNED, DOC_KEYS, DOC_KEYSTORE, DOC_API,
     DOC_SEED_LABELED, DOC_SEED_REJECTED, DOC_SEED_IN_PROSE, DOC_CONTRACT_KEYED}

-----------------------------------------------------------------------------
(***************************************************************************)
(* artifact_extractor.py: hashing and the content tests, tabulated over    *)
(* the texts the families meet in the documents of the model: the contents *)
(* of their artifacts and the candidates they turn down.                   *)
(***************************************************************************)
CONTENTS ==
    {ADDR_LOWER, ADDR_UPPER, ADDR_OF_KEY, PHRASE, PHRASE_WS, PHRASE_ZOO,
     PHRASE_LONG, PHRASE_SEED, PHRASE \o <<" ">> \o ART, KEY_HEX, KEY_QUOTED,
     Lower(KEY_QUOTED), KEY_PREFIXED, INFURA_KEY, ALCHEMY_KEY, ETHERSCAN_KEY,
     CONTRACT_CODE, CONTRACT_KEYED, KEYSTORE_JSON}

\* the agent's primary entity
ENTITY == <<"V", "B">>

DATE_CUTOFF == Chars("2022-01-01")

\* generate_hash: SHA-256 of the lower-cased content with all whitespace removed
Normalized(content) == SelectSeq(Lower(content), NotSpace)
HASHES == [content \in CONTENTS |-> Normalized(content)]
generate_hash(content) == HASHES[content]

\* any(phrase in content.lower() for phrase in WARNING_PHRASES)
HAS_WARNING ==
    [content \in CONTENTS |-> \E w \in WARNING_PHRASES : Contains(Lower(content), w)]

\* alias.lower() in content.lower()
MENTIONS ==
    [content \in CONTENTS |->
        [alias \in CONTENTS \cup {ENTITY} |-> Contains(Lower(content), Lower(alias))]]

-----------------------------------------------------------------------------
(***************************************************************************)
(* The locators and queries of the model, with the facts about them that   *)
(* the code computes (urlparse, regular expressions, substring tests).     *)
(***************************************************************************)
NONE == ""

U_ETH == "https://ethereum.org/en/history/"
U_EX == "https://example.com/page"
U_GH == "https://github.com/vbuterin"
U_CAL == "https://web.archive.org/web/2014*/https://ethereum.org/en/history/"
U_BAD == "not a url"
U_NOT == "https://notethereum.org/wallet"
Q1 == "vitalik buterin early username"

\* the archive captures of the model: timestamp as text and as characters
TIMESTAMPS ==
    << [s |-> "2019", c |-> <<"2", "0", "1", "9">>],
       [s |-> "2014", c |-> <<"2", "0", "1", "4">>],
       [s |-> "2023", c |-> <<"2", "0", "2", "3">>],
       [s |-> "2016", c |-> <<"2", "0", "1", "6">>],
       [s |-> "2013", c |-> <<"2", "0", "1", "3">>],
       [s |-> "2021", c |-> <<"2", "0", "2", "1">>],
       [s |-> "2015", c |-> <<"2", "0", "1", "5">>],
       [s |-> "2022", c |-> <<"2", "0", "2", "2">>] >>

ARCHIVE_PREFIX == "https://web.archive.org/web/"

\* urlparse(url).netloc
Netloc(url) ==
    CASE url = U_ETH -> <<"e", "t", "h", "e", "r", "e", "u", "m", ".", "o", "r", "g">>
      [] url = U_EX -> <<"e", "x", "a", "m", "p", "l", "e", ".", "c", "o", "m">>
      [] url = U_GH -> <<"g", "i", "t", "h", "u", "b", ".", "c", "o", "m">>
      [] url = U_BAD -> <<>>
      [] url = U_NOT -> <<"n", "o", "t", "e", "t", "h", "e", "r", "e", "u", "m", ".", "o", "r", "g">>
      [] OTHER -> <<"w", "e", "b", ".", "a", "r", "c", "h", "i", "v", "e", ".", "o", "r", "g">>

\* '*' in url and 'web.archive.org/web/' in url
IsCalendarUrl(url) == url = U_CAL

\* url.startswith('https://web.archive.org/')
IsArchiveUrl(url) == url \notin {U_ETH, U_EX, U_GH, U_BAD, U_NOT, NONE}

\* int(text) for a text of decimal digits
DIGIT_VALUE ==
    [c \in {"0", "1", "2", "3", "4", "5", "6", "7", "8", "9"} |->
        CASE c = "0" -> 0 [] c = "1" -> 1 [] c = "2" -> 2 [] c = "3" -> 3
          [] c = "4" -> 4 [] c = "5" -> 5 [] c = "6" -> 6 [] c = "7" -> 7
          [] c = "8" -> 8 [] c = "9" -> 9]
RECURSIVE IntOf(_)
IntOf(digits) ==
    IF digits = <<>> THEN 0
    ELSE 10 * IntOf(SubSeq(digits, 1, Len(digits) - 1)) + DIGIT_VALUE[digits[Len(digits)]]

\* year = timestamp[:4], used as int(year)
YearOf(timestamp) == IntOf(SubSeq(timestamp, 1, 4))

\* re.match(r'https://web\.archive\.org/web/(\d{4,14})\*/(.+)', calendar_url)
CalendarMatch(url) ==
    IF url = U_CAL
    THEN [matched |-> TRUE, timestamp |-> TIMESTAMPS[2],
          original_url |-> U_ETH, stripped |-> "ethereum.org/en/history/",
          year |-> YearOf(TIMESTAMPS[2].c)]
    ELSE [matched |-> FALSE, timestamp |-> TIMESTAMPS[2],
          original_url |-> NONE, stripped |-> NONE, year |-> 0]

\* score_artifact returning at the first term that applies
ScoreWithEarlyExit(url, content, date) ==
    IF \E t \in TRUSTED_DOMAINS : EndsWith(Netloc(url), t) THEN 3
    ELSE IF EndsWith(Netloc(url), <<".", "o", "r", "g">>) THEN 1
    ELSE IF \E c \in COMMUNITY_DOMAINS : EndsWith(Netloc(url), c) THEN -5
    ELSE IF date # <<>> /\ StrLess(date, DATE_CUTOFF) THEN 1
    ELSE IF HAS_WARNING[content] THEN -10
    ELSE IF Len(content) > 20 THEN 2
    ELSE 0

\* score_artifact(url, content, date); date is <<>> when absent
score_artifact(url, content, date) ==
    LET domain == Netloc(url)
        trusted == IF \E t \in TRUSTED_DOMAINS : EndsWith(domain, t) THEN 3 ELSE 0
        org == IF EndsWith(domain, <<".", "o", "r", "g">>) THEN 1 ELSE 0
        community == IF \E c \in COMMUNITY_DOMAINS : EndsWith(domain, c) THEN -5 ELSE 0
        early == IF date # <<>> /\ StrLess(date, DATE_CUTOFF) THEN 1 ELSE 0
        warned == IF HAS_WARNING[content] THEN -10 ELSE 0
        long == IF Len(content) > 20 THEN 2 ELSE 0
    IN  trusted + org + community + early + warned + long

-----------------------------------------------------------------------------
(***************************************************************************)
(* artifact_extractor.py: extract_artifacts_from_html, and what fetch_page *)
(* gives for the locators of the model.                                    *)
(***************************************************************************)
\* what fetch_page may give for a locator
PagesAt(url) ==
    CASE url = U_ETH -> {PAGE_RAISE, PAGE_EMPTY, DOC_ADDR, DOC_CONTRACT_KEYED}
      [] url = U_EX -> {DOC_CONTRACT_WARNED, DOC_ADDR_UPPER}
      [] OTHER -> {PAGE_RAISE, PAGE_EMPTY, DOC_ADDR_UPPER}

\* what fetch_page gives for the archive's captures, by capture number
SNAPSHOT_PAGES ==
    <<DOC_PHRASE_WS, PAGE_EMPTY, PAGE_RAISE, DOC_KEY_WARNED,
      DOC_ADDR_UPPER, PAGE_EMPTY, PAGE_RAISE, DOC_PLAIN>>

\* str(n) inside an f-string
DigitChar(d) == <<"0", "1", "2", "3", "4", "5", "6", "7", "8", "9">>[d + 1]
RECURSIVE Digits(_)
Digits(n) == IF n < 10 THEN <<DigitChar(n)>> ELSE Digits(n \div 10) \o <<DigitChar(n % 10)>>

\* summary[:97] + "..." when len(summary) > 100
Truncated(summary) ==
    IF Len(summary) > 100 THEN SubSeq(summary, 1, 97) \o Chars("...") ELSE summary

\* a summary that repeats the content
UnredactedSummary(type, content, note) == content

\* the 'summary' field each family writes
Summary(type, content, note) ==
    CASE type = "solidity_contract" ->
            Chars("Contract ") \o note \o Chars(": ") \o Truncated(content)
      [] type = "wallet_address" -> content
      [] type = "private_key" ->
            Chars("[private key redacted - ") \o Digits(Len(content)) \o Chars(" chars]")
      [] type = "ethereum_keystore" ->
            Chars("[JSON keystore redacted] - v3 keystore for address 0x") \o note
      [] type = "seed_phrase" ->
            <<"[">> \o Digits(note) \o Chars("-word seed phrase redacted]")
      [] type = "api_key" ->
            <<"[">> \o note \o Chars(" API key redacted - ")
            \o Digits(Len(content)) \o Chars(" chars]")

\* if artifact_hash in artifact_hashes: continue
NeverSeen(artifact_hash, artifact_hashes) == FALSE
AlreadySeen(artifact_hash, artifact_hashes) == artifact_hash \in artifact_hashes

\* one family loop body: skip a match whose hash was already seen in this
\* document, otherwise record the hash and emit the scored artifact
RECURSIVE ExtractMatches(_, _, _, _)
ExtractMatches(matches, url, date, artifact_hashes) ==
    IF matches = <<>> THEN <<>>
    ELSE LET m == Head(matches)
             artifact_hash == generate_hash(m.content)
         IN  IF AlreadySeen(artifact_hash, artifact_hashes)
             THEN ExtractMatches(Tail(matches), url, date, artifact_hashes)
             ELSE << [type |-> m.type,
                      content |-> m.content,
                      summary |-> Summary(m.type, m.content, m.note),
                      hash |-> artifact_hash,
                      score |-> score_artifact(url, m.content, date),
                      url |-> url,
                      date |-> date] >>
                  \o ExtractMatches(Tail(matches), url, date,
                                    artifact_hashes \cup {artifact_hash})

\* the body of extract_artifacts_from_html, given the hash set it starts with
ExtractFrom(page, url, date, artifact_hashes) ==
    IF page.status # "ok" \/ page.length < 100
    THEN <<>>
    ELSE ExtractMatches(page.matches, url, date, artifact_hashes)

\* artifact_hashes = set(): whatever an earlier call left, the set starts empty
HashesOfEarlierCall(left) == left
FreshHashes(left) == {}

extract_artifacts_from_html(page, url, date) ==
    ExtractFrom(page, url, date, FreshHashes({}))

-----------------------------------------------------------------------------
(***************************************************************************)
(* detective_agent.py: discoveries.                                        *)
(***************************************************************************)
\* a duplicate test that compares the raw content only
DuplicateByContentOnly(discoveries, discovery) ==
    \E i \in DOMAIN discoveries :
        discoveries[i].content = discovery.content /\ discovery.content # <<>>

_is_duplicate_discovery(discoveries, discovery) ==
    \E i \in DOMAIN discoveries :
        \/ discoveries[i].id = discovery.id
        \/ discoveries[i].content = discovery.content /\ discovery.content # <<>>

\* a duplicate discovery is logged and nothing else: the list stays as it is
RECURSIVE ReplaceExisting(_, _)
ReplaceExisting(discoveries_so_far, discovery) ==
    IF discoveries_so_far = <<>> THEN <<>>
    ELSE <<IF _is_duplicate_discovery(<<Head(discoveries_so_far)>>, discovery)
           THEN discovery ELSE Head(discoveries_so_far)>>
         \o ReplaceExisting(Tail(discoveries_so_far), discovery)
KeepExisting(discoveries_so_far, discovery) == discoveries_so_far

\* artifact.get('type') in ['username', 'alias', 'wallet_address']
AnyType(type) == TRUE
NamesEntity(type) == type \in {"username", "alias", "wallet_address"}

\* if score <= 0: continue
KeepAnyScore(score) == FALSE
ScoreTooLow(score) == score <= 0

\* a boost for the types that name the entity only
TypeBoostForNames(type) ==
    IF type \in {"username", "alias", "wallet_address"} THEN 2 ELSE 0

\* if artifact_type in ['username', 'alias', 'wallet_address', 'private_key']:
\*     score += 2
TypeBoost(type) ==
    IF type \in {"username", "alias", "wallet_address", "private_key"} THEN 2 ELSE 0

\* a skip that leaves the skipped artifact where the duplicate test finds it
SkipButRemember(acc, discovery, seen) ==
    [acc EXCEPT !.discoveries = Append(acc.discoveries, discovery),
                !.rejected = acc.rejected \cup {discovery.content},
                !.scored = seen]

\* 'if score <= 0: continue': nothing of the agent changes
SkipLowScore(acc, discovery, seen) ==
    [acc EXCEPT !.rejected = acc.rejected \cup {discovery.content},
                !.scored = seen]

\* acc = [discoveries, entity_aliases, new_discoveries, duplicates, rejected,
\* scored]; duplicates, rejected and scored are ghosts: the contents
\* _is_duplicate_discovery turned down, the contents skipped for their score,
\* and for every artifact the loop went through its type, content, score on
\* entry, the alias set it was compared with and its score after adjustment
RECURSIVE ProcessLoop(_, _, _, _, _, _)
ProcessLoop(acc, artifacts, source_url, is_wayback, original_url, iteration) ==
    IF artifacts = <<>> THEN acc
    ELSE LET artifact == Head(artifacts)
             boost == TypeBoost(artifact.type)
             match == IF \E alias \in acc.entity_aliases : MENTIONS[artifact.content][alias]
                      THEN 1 ELSE 0
             score == artifact.score + boost + match
             discovery == [id |-> artifact.hash,
                           type |-> artifact.type,
                           content |-> artifact.content,
                           summary |-> artifact.summary,
                           source_url |-> source_url,
                           original_url |-> IF is_wayback THEN original_url ELSE source_url,
                           is_wayback |-> is_wayback,
                           score |-> score,
                           iteration |-> iteration]
             seen == acc.scored \cup {[type |-> artifact.type,
                                        content |-> artifact.content,
                                        extraction |-> artifact.score,
                                        aliases |-> acc.entity_aliases,
                                        final |-> score]}
             next ==
                IF ScoreTooLow(score)
                THEN SkipLowScore(acc, discovery, seen)
                ELSE IF _is_duplicate_discovery(acc.discoveries, discovery)
                THEN [acc EXCEPT !.discoveries = KeepExisting(acc.discoveries, discovery),
                                 !.duplicates = acc.duplicates \cup {discovery.content},
                                 !.scored = seen]
                ELSE [discoveries |-> Append(acc.discoveries, discovery),
                      scored |-> seen,
                      entity_aliases |->
                          IF NamesEntity(artifact.type)
                          THEN acc.entity_aliases \cup {artifact.content}
                          ELSE acc.entity_aliases,
                      new_discoveries |-> Append(acc.new_discoveries, discovery),
                      duplicates |-> acc.duplicates,
                      rejected |-> acc.rejected]
         IN  ProcessLoop(next, Tail(artifacts), source_url, is_wayback, original_url, iteration)

-----------------------------------------------------------------------------
(***************************************************************************)
(* detective_agent.py: targets and the frontier.                           *)
(*                                                                         *)
(* A target is the dict the code builds; an absent key is NONE (FALSE for  *)
(* use_wayback).  The field seq is a ghost: the number of targets inserted *)
(* before this one, used only to state insertion order.                    *)
(*                                                                         *)
(* The handlers below act on the agent record a:                           *)
(*   research_queue, investigated_urls, discoveries, entity_aliases        *)
(* plus ghosts describing the handler call in progress:                    *)
(*   inserted (targets inserted so far), dropped (targets push filtered    *)
(*   out), fetches (fetch_page calls), listings (get_snapshots calls),     *)
(*   snapshots / selected (the last listing and the sample taken from it), *)
(*   snapshot_fetches (fetch_page calls on sampled snapshots), searches,   *)
(*   llm_calls, advice (how usable the advisory response was), json_str    *)
(*   (the kind of text _extract_json returned for it), log (the records    *)
(*   appended to the research log), duplicates                             *)
(*   (contents turned down as duplicate discoveries), rejected (contents   *)
(*   skipped for their score), failures                                    *)
(*   (collaborator calls that raised or came back empty), fetch_failures   *)
(*   (the fetch_page calls among them).                                    *)
(***************************************************************************)
CURRENT_YEAR == 2026
DefaultYearRange == <<2013, CURRENT_YEAR>>

\* target.get('year_range', (2013, datetime.datetime.now().year)); <<>> is absent
YearRange(target) ==
    IF target.year_range = <<>> THEN DefaultYearRange ELSE target.year_range

Target(type, url, query, priority, use_wayback, year_range) ==
    [type |-> type, url |-> url, query |-> query, priority |-> priority,
     use_wayback |-> use_wayback, year_range |-> year_range, seq |-> 0]

\* the key under which a target's investigation is recorded in investigated_urls
VisitedKey(target) ==
    CASE target.type = "wayback" -> "wayback:" \o target.url
      [] target.type = "search" -> "search:" \o target.query
      [] OTHER -> target.url

\* a filter that lets history targets through
IsFilteredOutUnlessWayback(target, investigated_urls) ==
    \/ target.type = "website" /\ target.url \in investigated_urls
    \/ target.type = "search" /\ ("search:" \o target.query) \in investigated_urls
    \/ target.type = "github" /\ target.url \in investigated_urls

\* the filter at the head of _update_research_queue
IsFilteredOut(target, investigated_urls) ==
    \/ target.type = "website" /\ target.url \in investigated_urls
    \/ target.type = "wayback" /\ ("wayback:" \o target.url) \in investigated_urls
    \/ target.type = "search" /\ ("search:" \o target.query) \in investigated_urls
    \/ target.type = "github" /\ target.url \in investigated_urls

\* an insertion that puts the new target in front of its equals
RECURSIVE InsertNewestFirst(_, _)
InsertNewestFirst(sorted, t) ==
    IF sorted = <<>> THEN <<t>>
    ELSE IF Head(sorted).priority > t.priority
         THEN <<Head(sorted)>> \o InsertNewestFirst(Tail(sorted), t)
         ELSE <<t>> \o sorted

\* list.sort(key=priority, reverse=True): stable, descending
RECURSIVE InsertByPriority(_, _)
InsertByPriority(sorted, t) ==
    IF sorted = <<>> THEN <<t>>
    ELSE IF Head(sorted).priority >= t.priority
         THEN <<Head(sorted)>> \o InsertByPriority(Tail(sorted), t)
         ELSE <<t>> \o sorted

RECURSIVE SortByPriority(_)
SortByPriority(queue) ==
    IF queue = <<>> THEN <<>>
    ELSE InsertByPriority(SortByPriority(SubSeq(queue, 1, Len(queue) - 1)),
                          queue[Len(queue)])

RECURSIVE Stamp(_, _)
Stamp(targets, from) ==
    IF targets = <<>> THEN <<>>
    ELSE <<[Head(targets) EXCEPT !.seq = from]>> \o Stamp(Tail(targets), from + 1)

KeptBy(a, t) == ~IsFilteredOut(t, a.investigated_urls)
_update_research_queue(a, new_targets) ==
    LET Kept(t) == KeptBy(a, t)
        Gone(t) == ~KeptBy(a, t)
        filtered_targets == SelectSeq(new_targets, Kept)
        rejected == SelectSeq(new_targets, Gone)
    IN  [a EXCEPT
            !.research_queue =
                SortByPriority(a.research_queue \o Stamp(filtered_targets, a.inserted)),
            !.inserted = a.inserted + Len(filtered_targets),
            !.dropped = a.dropped \cup {rejected[i] : i \in DOMAIN rejected}]

-----------------------------------------------------------------------------
(***************************************************************************)
(* detective_agent.py: the dispatch handlers.  A handler yields            *)
(* [a, out, raised]: the agent afterwards, the discoveries it returns, and *)
(* whether an exception is propagating out of it.                          *)
(***************************************************************************)
Ret(a, out) == [a |-> a, out |-> out, raised |-> FALSE]

\* _log_to_research_log: one record appended to the research log; a record is
\* given by its event and, for an investigation, the key of its target
LogRecord(event, key) == [event |-> event, target |-> key]
_log_to_research_log(a, entry) == [a EXCEPT !.log = Append(a.log, entry)]

\* an investigation that leaves no record
NoInvestigationRecord(a, t) == a

\* _log_investigation_results
_log_investigation_results(a, t) ==
    _log_to_research_log(a, LogRecord("investigation", VisitedKey(t)))
Raise(a) == [a |-> a, out |-> <<>>, raised |-> TRUE]

\* a handler without its except branch
Propagate(r) == r

\* 'except Exception as e: logger.error(...); return []' around a handler body:
\* what the body did before the exception stays done
CatchAll(r) == IF r.raised THEN Ret(r.a, <<>>) ELSE r

\* ghosts: one more collaborator call that raised or came back empty, and one
\* more fetch_page call that did
Failed(a) == [a EXCEPT !.failures = a.failures + 1]
FailedFetch(a) == [a EXCEPT !.failures = a.failures + 1,
                            !.fetch_failures = a.fetch_failures + 1]

_process_artifacts(a, artifacts, source_url, is_wayback, original_url, iteration) ==
    LET done == ProcessLoop([discoveries |-> a.discoveries,
                             entity_aliases |-> a.entity_aliases,
                             new_discoveries |-> <<>>,
                             duplicates |-> a.duplicates,
                             rejected |-> a.rejected,
                             scored |-> a.scored],
                            artifacts, source_url, is_wayback, original_url, iteration)
    IN  Ret([a EXCEPT !.discoveries = done.discoveries,
                      !.entity_aliases = done.entity_aliases,
                      !.duplicates = done.duplicates,
                      !.rejected = done.rejected,
                      !.scored = done.scored],
            done.new_discoveries)

\* sorted(snapshots, key=timestamp): stable, ascending
RECURSIVE InsertByTimestamp(_, _)
InsertByTimestamp(sorted, x) ==
    IF sorted = <<>> THEN <<x>>
    ELSE IF StrLess(x.timestamp, Head(sorted).timestamp)
         THEN <<x>> \o sorted
         ELSE <<Head(sorted)>> \o InsertByTimestamp(Tail(sorted), x)

RECURSIVE SortByTimestamp(_)
SortByTimestamp(snapshots) ==
    IF snapshots = <<>> THEN <<>>
    ELSE InsertByTimestamp(SortByTimestamp(SubSeq(snapshots, 1, Len(snapshots) - 1)),
                           snapshots[Len(snapshots)])

Min(x, y) == IF x <= y THEN x ELSE y

\* the outcomes of random.sample(middle_snapshots, min(3, len(middle_snapshots))):
\* sequences of pairwise distinct positions of middle_snapshots
Samples(snapshots) ==
    IF Len(snapshots) > 5
    THEN LET k == Len(snapshots) - 2
             m == Min(3, k)
         IN  {q \in [1..m -> 1..k] : \A i, j \in 1..m : i # j => q[i] # q[j]}
    ELSE {<<>>}

\* a selection that takes every snapshot
SelectEverySnapshot(snapshots, sample) == snapshots

\* a selection that takes the list in the order it came in
SelectWithoutSorting(snapshots, sample) ==
    IF Len(snapshots) > 5
    THEN LET middle_snapshots == SubSeq(snapshots, 2, Len(snapshots) - 1)
         IN  <<snapshots[1], snapshots[Len(snapshots)]>>
             \o [i \in 1..Len(sample) |-> middle_snapshots[sample[i]]]
    ELSE snapshots

\* the snapshots _investigate_wayback selects for fetching
SelectSnapshots(snapshots, sample) ==
    IF Len(snapshots) > 5
    THEN LET sorted_snapshots == SortByTimestamp(snapshots)
             middle_snapshots == SubSeq(sorted_snapshots, 2, Len(sorted_snapshots) - 1)
         IN  <<sorted_snapshots[1], sorted_snapshots[Len(sorted_snapshots)]>>
             \o [i \in 1..Len(sample) |-> middle_snapshots[sample[i]]]
    ELSE snapshots

\* the loop over selected_snapshots; an exception inside one pass is caught
\* there and the loop goes on
RECURSIVE SnapshotLoop(_, _, _, _, _, _)

\* all_discoveries.extend(discoveries), then the next pass of the loop
ExtendAndGoOn(r, selected, captures, url, iteration, all_discoveries) ==
    SnapshotLoop(r.a, selected, captures, url, iteration, all_discoveries \o r.out)

SnapshotLoop(a, selected, captures, url, iteration, all_discoveries) ==
    IF selected = <<>> THEN Ret(a, all_discoveries)
    ELSE LET snapshot == Head(selected)
             snapshot_url == snapshot.wayback_url
             fetched == [a EXCEPT !.fetches = a.fetches + 1,
                                  !.snapshot_fetches = a.snapshot_fetches + 1]
         IN  IF snapshot_url = NONE
             THEN SnapshotLoop(a, Tail(selected), captures, url, iteration,
                               all_discoveries)
             ELSE IF captures[snapshot.capture].status # "ok"
             THEN SnapshotLoop(FailedFetch(fetched), Tail(selected), captures, url,
                               iteration, all_discoveries)
             ELSE ExtendAndGoOn(
                      _process_artifacts(fetched,
                          extract_artifacts_from_html(captures[snapshot.capture],
                                                      snapshot_url, snapshot.timestamp),
                          snapshot_url, TRUE, url, iteration),
                      Tail(selected), captures, url, iteration, all_discoveries)

WaybackBody(a, url, listing, sample, iteration) ==
    LET asked == [a EXCEPT !.listings = a.listings + 1]
    IN  IF listing.status = "raise" THEN Raise(Failed(asked))
        ELSE IF listing.snapshots = <<>> THEN Ret(Failed(asked), <<>>)
        ELSE LET selected_snapshots == SelectSnapshots(listing.snapshots, sample)
             IN  SnapshotLoop([asked EXCEPT !.snapshots = listing.snapshots,
                                            !.selected = selected_snapshots],
                              selected_snapshots, listing.captures, url, iteration, <<>>)

\* a history handler that does not record its key
InvestigateWaybackUnrecorded(a, target, listing, sample, iteration) ==
    LET url == target.url
        wayback_url == "wayback:" \o url
    IN  IF url = NONE THEN Ret(a, <<>>)
        ELSE IF wayback_url \in a.investigated_urls THEN Ret(a, <<>>)
        ELSE CatchAll(WaybackBody([a EXCEPT !.year_range = YearRange(target)],
                                  url, listing, sample, iteration))

_investigate_wayback(a, target, listing, sample, iteration) ==
    LET url == target.url
        wayback_url == "wayback:" \o url
    IN  IF url = NONE THEN Ret(a, <<>>)
        ELSE IF wayback_url \in a.investigated_urls THEN Ret(a, <<>>)
        ELSE CatchAll(WaybackBody(
                 [a EXCEPT !.investigated_urls = a.investigated_urls \cup {wayback_url},
                           !.year_range = YearRange(target)],
                 url, listing, sample, iteration))

\* in the ghost direct, what fetch_page gave for the direct snapshot locator
CalendarBody(a, wayback_url, m, page, listing, sample, iteration) ==
    LET fetched == [a EXCEPT !.fetches = a.fetches + 1, !.direct = page.status]
        fallback == Target("wayback", m.original_url, NONE, 0, FALSE, <<m.year, m.year>>)
    IN  IF page.status = "raise" THEN Raise(FailedFetch(fetched))
        ELSE IF page.status = "empty"
        THEN _investigate_wayback(FailedFetch(fetched), fallback, listing, sample,
                                  iteration)
        ELSE _process_artifacts(fetched,
                 extract_artifacts_from_html(page, wayback_url, m.timestamp.c),
                 wayback_url, TRUE, m.original_url, iteration)

\* an except branch that falls back to the whole default range of years
CalendarExceptWholeRange(r, m, listing, sample, iteration) ==
    IF r.raised
    THEN _investigate_wayback(r.a,
             Target("wayback", m.original_url, NONE, 0, FALSE, <<>>),
             listing, sample, iteration)
    ELSE r

\* the except branch of _investigate_wayback_calendar falls back as well
CalendarExcept(r, m, listing, sample, iteration) ==
    IF r.raised
    THEN _investigate_wayback(r.a,
             Target("wayback", m.original_url, NONE, 0, FALSE, <<m.year, m.year>>),
             listing, sample, iteration)
    ELSE r

_investigate_wayback_calendar(a, calendar_url, page, listing, sample, iteration) ==
    LET m == CalendarMatch(calendar_url)
        wayback_url == ARCHIVE_PREFIX \o m.timestamp.s \o "/http://" \o m.stripped
    IN  IF ~m.matched THEN Ret(a, <<>>)
        ELSE CalendarExcept(
                 CalendarBody(a, wayback_url, m, page, listing, sample, iteration),
                 m, listing, sample, iteration)

\* a follow-up history target one priority below the website target
QueueWaybackFollowUpOneBelow(processed, target) ==
    IF target.use_wayback /\ ~IsArchiveUrl(target.url)
    THEN Ret(_update_research_queue(processed.a,
                 <<Target("wayback", target.url, NONE, target.priority - 1, FALSE,
                          YearRange(target))>>),
             processed.out)
    ELSE processed

\* 'if target.get('use_wayback', False) and not url.startswith(...)': the
\* follow-up history target, pushed after the page's artifacts were processed
QueueWaybackFollowUp(processed, target) ==
    IF target.use_wayback /\ ~IsArchiveUrl(target.url)
    THEN Ret(_update_research_queue(processed.a,
                 <<Target("wayback", target.url, NONE, target.priority - 2, FALSE,
                          YearRange(target))>>),
             processed.out)
    ELSE processed

\* in the ghost direct, what fetch_page gave for the locator
WebsiteBody(a, target, page, listing, sample, iteration) ==
    LET url == target.url
        fetched == [a EXCEPT !.fetches = a.fetches + 1, !.direct = page.status]
    IN  IF page.status = "raise" THEN Raise(FailedFetch(fetched))
        ELSE IF page.status = "empty"
        THEN IF target.use_wayback
             THEN _investigate_wayback(FailedFetch(fetched),
                      Target("wayback", url, NONE, 0, FALSE, <<>>),
                      listing, sample, iteration)
             ELSE Ret(FailedFetch(fetched), <<>>)
        ELSE QueueWaybackFollowUp(
                 _process_artifacts(fetched,
                     extract_artifacts_from_html(page, url, <<>>),
                     url, FALSE, NONE, iteration),
                 target)

\* a website handler without the test of the visited set
InvestigateWebsiteAgain(a, target, page, listing, sample, iteration) ==
    LET url == target.url
    IN  IF url = NONE THEN Ret(a, <<>>)
        ELSE IF IsCalendarUrl(url)
        THEN _investigate_wayback_calendar(a, url, page, listing, sample, iteration)
        ELSE CatchAll(WebsiteBody(
                 [a EXCEPT !.investigated_urls = a.investigated_urls \cup {url}],
                 target, page, listing, sample, iteration))

_investigate_website(a, target, page, listing, sample, iteration) ==
    LET url == target.url
    IN  IF url = NONE THEN Ret(a, <<>>)
        ELSE IF IsCalendarUrl(url)
        THEN _investigate_wayback_calendar(a, url, page, listing, sample, iteration)
        ELSE IF url \in a.investigated_urls THEN Ret(a, <<>>)
        ELSE CatchAll(WebsiteBody(
                 [a EXCEPT !.investigated_urls = a.investigated_urls \cup {url}],
                 target, page, listing, sample, iteration))

\* _is_valid_url, on the locators of the model
_is_valid_url(url) == url \in {U_ETH, U_EX, U_GH, U_CAL}

\* _should_check_wayback, on the locators of the model
_should_check_wayback(url) == url \in {U_ETH, U_GH}

\* for result in search_results[:10]: the website targets built from the results
RECURSIVE SearchTargets(_, _, _)
SearchTargets(results, target, investigated_urls) ==
    IF results = <<>> THEN <<>>
    ELSE LET result_url == Head(results)
             rest == SearchTargets(Tail(results), target, investigated_urls)
         IN  IF result_url = NONE \/ result_url \in investigated_urls
             THEN rest
             ELSE <<Target("website", result_url, NONE, target.priority - 1,
                           _should_check_wayback(result_url), <<>>)>> \o rest

\* a search that turns every result it was given into a target
SearchBodyWithoutLimit(a, target, found) ==
    LET searched == [a EXCEPT !.searches = a.searches + 1,
                              !.results = found.results]
    IN  IF found.status = "raise" THEN Raise(Failed(searched))
        ELSE IF found.results = <<>> THEN Ret(Failed(searched), <<>>)
        ELSE Ret(_update_research_queue(searched,
                     SearchTargets(found.results, target, searched.investigated_urls)),
                 <<>>)

\* the body of the try: in the ghost results, what crawler.search returned
SearchBody(a, target, found) ==
    LET searched == [a EXCEPT !.searches = a.searches + 1,
                              !.results = found.results]
    IN  IF found.status = "raise" THEN Raise(Failed(searched))
        ELSE IF found.results = <<>> THEN Ret(Failed(searched), <<>>)
        ELSE Ret(_update_research_queue(searched,
                     SearchTargets(SubSeq(found.results, 1, Min(10, Len(found.results))),
                                   target, searched.investigated_urls)),
                 <<>>)

_execute_search(a, target, found) ==
    LET query == target.query
        search_key == "search:" \o query
    IN  IF query = NONE THEN Ret(a, <<>>)
        ELSE IF search_key \in a.investigated_urls THEN Ret(a, <<>>)
        ELSE CatchAll(SearchBody(
                 [a EXCEPT !.investigated_urls = a.investigated_urls \cup {search_key}],
                 target, found))

\* the target handed on is {'url': github_url, 'type': 'website'}: no use_wayback,
\* and 5 is what target.get('priority', 5) gives for it
_investigate_github(a, target, page, listing, sample, iteration) ==
    LET github_url == target.url
    IN  IF github_url = NONE THEN Ret(a, <<>>)
        ELSE IF github_url \in a.investigated_urls THEN Ret(a, <<>>)
        ELSE _investigate_website(
                 [a EXCEPT !.investigated_urls = a.investigated_urls \cup {github_url}],
                 Target("website", github_url, NONE, 5, FALSE, <<>>),
                 page, listing, sample, iteration)

\* world = [page, listing, sample, found]: what the collaborators answer during
\* this dispatch
\* else: logger.warning(f"Unknown target type: {target_type}"); return []
UnknownTargetTypeRaises(a) == Raise(a)
UnknownTargetType(a) == Ret(a, <<>>)

_execute_investigation(a, target, world, iteration) ==
    CASE target.type = "website" ->
            _investigate_website(a, target, world.page, world.listing, world.sample, iteration)
      [] target.type = "search" ->
            _execute_search(a, target, world.found)
      [] target.type = "wayback" ->
            _investigate_wayback(a, target, world.listing, world.sample, iteration)
      [] target.type = "github" ->
            _investigate_github(a, target, world.page, world.listing, world.sample, iteration)
      [] OTHER -> UnknownTargetType(a)

-----------------------------------------------------------------------------
(***************************************************************************)
(* The advisory response.  A response is the outcome of _call_claude: an   *)
(* exception, or a text described by what _extract_json looks at: its      *)
(* fence ("json": a closed ```json block, "plain": a closed ``` block,     *)
(* "none"), the text inside the fence and the span from the first '{' to   *)
(* the last '}'.  A JSON text is "absent", "invalid", a valid "value" that *)
(* is no object, or an "object" with the four suggestion fields; a field   *)
(* is "missing", a "list" of items, "empty" (an empty string or object,    *)
(* which a for loop runs over zero times) or "other" (any other value:     *)
(* iterating it or calling .get on its elements raises); an item is an     *)
(* "object" or "other".                                                    *)
(***************************************************************************)
Item(url, query) == [kind |-> "object", url |-> url, query |-> query, year_range |-> <<>>]
ITEM_OTHER == [kind |-> "other", url |-> NONE, query |-> NONE, year_range |-> <<>>]

List(items) == [kind |-> "list", items |-> items]
F_MISSING == [kind |-> "missing", items |-> <<>>]
F_EMPTY == [kind |-> "empty", items |-> <<>>]
F_OTHER == [kind |-> "other", items |-> <<>>]

Json(kind, w, s, h, g) ==
    [kind |-> kind, website_targets |-> w, search_queries |-> s,
     wayback_targets |-> h, github_targets |-> g]
Object(w, s, h, g) == Json("object", w, s, h, g)
J_ABSENT == Json("absent", F_MISSING, F_MISSING, F_MISSING, F_MISSING)
J_INVALID == Json("invalid", F_MISSING, F_MISSING, F_MISSING, F_MISSING)
J_VALUE == Json("value", F_MISSING, F_MISSING, F_MISSING, F_MISSING)
J_EMPTY_OBJECT == Object(F_MISSING, F_MISSING, F_MISSING, F_MISSING)

Text(fence, fenced, span) ==
    [call |-> "ok", fence |-> fence, fenced |-> fenced, span |-> span]
Fenced(json) == Text("json", json, json)

R_FAIL == [call |-> "raise", fence |-> "none", fenced |-> J_ABSENT, span |-> J_ABSENT]
R_PROSE == Text("none", J_ABSENT, J_ABSENT)
R_BROKEN == Text("json", J_INVALID, J_INVALID)
R_ARRAY == Text("json", J_VALUE, J_ABSENT)
R_BAD_FIELD == Fenced(Object(List(<<Item(U_EX, NONE)>>), F_OTHER, F_MISSING, F_MISSING))
R_BAD_ITEM == Fenced(Object(List(<<Item(U_EX, NONE), ITEM_OTHER>>), F_MISSING, F_MISSING, F_MISSING))
R_EMPTY_FIELD == Fenced(Object(List(<<Item(U_EX, NONE)>>), F_EMPTY, F_MISSING, F_MISSING))
R_SPAN == Text("plain", J_INVALID,
               Object(F_MISSING, F_MISSING, List(<<Item(U_ETH, NONE)>>), F_MISSING))
R_QUERY_REPO == Fenced(Object(F_MISSING, List(<<Item(NONE, Q1)>>), F_MISSING,
                              List(<<Item(U_GH, NONE)>>)))
R_CAL == Fenced(Object(List(<<Item(U_CAL, NONE), Item(U_EX, NONE)>>),
                       F_MISSING, F_MISSING, F_MISSING))
R_HIST == Fenced(Object(F_MISSING, F_MISSING, List(<<Item(U_ETH, NONE)>>), F_MISSING))
R_SITE == Fenced(Object(List(<<Item(U_BAD, NONE), Item(U_ETH, NONE)>>),
                        F_MISSING, F_MISSING, F_MISSING))

R_REPO == Fenced(Object(F_MISSING, F_MISSING, F_MISSING, List(<<Item(U_GH, NONE)>>)))

R_ALL == Fenced(Object(List(<<Item(U_EX, NONE)>>), List(<<Item(NONE, Q1)>>),
                       List(<<Item(U_ETH, NONE)>>), List(<<Item(U_GH, NONE)>>)))

Responses ==
    {R_FAIL, R_PROSE, R_BROKEN, R_ARRAY, R_BAD_FIELD, R_BAD_ITEM, R_EMPTY_FIELD, R_SPAN,
     R_QUERY_REPO, R_CAL, R_HIST, R_SITE, R_REPO, R_ALL}

\* json.loads accepts the text
IsValidJson(json) == json.kind \in {"value", "object"}

\* LLMIntegration._extract_json: the JSON text handed to json.loads
_extract_json(text) ==
    IF text.fence = "json" THEN text.fenced
    ELSE IF text.fence = "plain" /\ IsValidJson(text.fenced) THEN text.fenced
    ELSE IF text.span.kind # "absent" /\ IsValidJson(text.span) THEN text.span
    ELSE J_EMPTY_OBJECT

\* a suggestion item turned into a target whether or not it was investigated
SuggestedTargetUnfiltered(category, item, investigated_urls, prio) ==
    CASE category = "website" ->
            IF item.url # NONE /\ _is_valid_url(item.url)
            THEN <<Target("website", item.url, NONE, prio.website,
                          _should_check_wayback(item.url), <<>>)>>
            ELSE <<>>
      [] category = "search" ->
            IF item.query # NONE
            THEN <<Target("search", NONE, item.query, prio.search, FALSE, <<>>)>>
            ELSE <<>>
      [] category = "wayback" ->
            IF item.url # NONE /\ _is_valid_url(item.url)
            THEN <<Target("wayback", item.url, NONE, prio.wayback, FALSE,
                          IF item.year_range = <<>> THEN DefaultYearRange
                          ELSE item.year_range)>>
            ELSE <<>>
      [] category = "github" ->
            IF item.url # NONE /\ _is_valid_url(item.url)
            THEN <<Target("github", item.url, NONE, prio.github, FALSE, <<>>)>>
            ELSE <<>>

\* the target one suggestion item of a category becomes, <<>> when the item is
\* skipped; prio gives the priority of each category
SuggestedTarget(category, item, investigated_urls, prio) ==
    CASE category = "website" ->
            IF item.url # NONE /\ _is_valid_url(item.url) /\ item.url \notin investigated_urls
            THEN <<Target("website", item.url, NONE, prio.website,
                          _should_check_wayback(item.url), <<>>)>>
            ELSE <<>>
      [] category = "search" ->
            IF item.query # NONE /\ ("search:" \o item.query) \notin investigated_urls
            THEN <<Target("search", NONE, item.query, prio.search, FALSE, <<>>)>>
            ELSE <<>>
      [] category = "wayback" ->
            IF item.url # NONE /\ _is_valid_url(item.url)
               /\ ("wayback:" \o item.url) \notin investigated_urls
            THEN <<Target("wayback", item.url, NONE, prio.wayback, FALSE,
                          IF item.year_range = <<>> THEN DefaultYearRange
                          ELSE item.year_range)>>
            ELSE <<>>
      [] category = "github" ->
            IF item.url # NONE /\ _is_valid_url(item.url) /\ item.url \notin investigated_urls
            THEN <<Target("github", item.url, NONE, prio.github, FALSE, <<>>)>>
            ELSE <<>>

\* one 'for ... in suggestions.get(category, [])' loop, appending to new_targets;
\* b = [targets, raised]
RECURSIVE ItemLoop(_, _, _, _, _)
ItemLoop(b, category, items, investigated_urls, prio) ==
    IF b.raised \/ items = <<>> THEN b
    ELSE IF Head(items).kind # "object" THEN [b EXCEPT !.raised = TRUE]
    ELSE ItemLoop([b EXCEPT !.targets =
                        b.targets \o SuggestedTarget(category, Head(items),
                                                     investigated_urls, prio)],
                  category, Tail(items), investigated_urls, prio)

CategoryLoop(b, category, field, investigated_urls, prio) ==
    IF b.raised THEN b
    ELSE IF field.kind = "other" THEN [b EXCEPT !.raised = TRUE]
    ELSE ItemLoop(b, category, field.items, investigated_urls, prio)

\* from the call of the advisory to the end of the four loops: new_targets as far
\* as it was built, and whether an exception stopped it
BuildTargets(response, investigated_urls, prio) ==
    LET json_str == _extract_json(response)
        start == [targets |-> <<>>, raised |-> FALSE]
        w == CategoryLoop(start, "website", json_str.website_targets, investigated_urls, prio)
        q == CategoryLoop(w, "search", json_str.search_queries, investigated_urls, prio)
        h == CategoryLoop(q, "wayback", json_str.wayback_targets, investigated_urls, prio)
        g == CategoryLoop(h, "github", json_str.github_targets, investigated_urls, prio)
    IN  IF response.call = "raise" THEN [start EXCEPT !.raised = TRUE]
        ELSE IF json_str.kind # "object" THEN [start EXCEPT !.raised = TRUE]
        ELSE g

\* the response holds a text that _extract_json hands on (it does not fall
\* back to '{}')
HoldsJson(text) ==
    \/ text.fence = "json"
    \/ text.fence = "plain" /\ IsValidJson(text.fenced)
    \/ text.span.kind # "absent" /\ IsValidJson(text.span)

\* a response is "unusable" when the call fails, it holds no JSON or no valid
\* JSON, the JSON is not an object, or a suggestion field or one of its items
\* is a value the loops raise on; "irregular" when it is an object but a field
\* is an empty string or object instead of a list; "usable" otherwise
Usability(response) ==
    LET json_str == _extract_json(response)
        fields == {json_str.website_targets, json_str.search_queries,
                   json_str.wayback_targets, json_str.github_targets}
    IN  IF response.call = "raise" \/ ~HoldsJson(response) \/ json_str.kind # "object"
        THEN "unusable"
        ELSE IF \E f \in fields :
                    \/ f.kind = "other"
                    \/ \E i \in DOMAIN f.items : f.items[i].kind # "object"
        THEN "unusable"
        ELSE IF \E f \in fields : f.kind = "empty" THEN "irregular"
        ELSE "usable"

\* priorities that put the history suggestions level with the search queries
LEVEL_PRIORITY == [website |-> 9, search |-> 8, wayback |-> 8, github |-> 8]

\* the 'priority' literals of the four loops of each consultation
NEXT_STEPS_PRIORITY == [website |-> 9, search |-> 8, wayback |-> 7, github |-> 8]
NEW_LEADS_PRIORITY == [website |-> 7, search |-> 6, wayback |-> 5, github |-> 6]

\* a return of the targets built before the exception
TargetsSoFar(b) == b.targets

\* 'except Exception: return []' of _consult_llm_for_next_steps: the targets
\* built before the exception are discarded
TargetsOrNone(b) == IF b.raised THEN <<>> ELSE b.targets

\* the new targets _consult_llm_for_next_steps returns
_consult_llm_for_next_steps(a, discoveries, response) ==
    IF discoveries = <<>> THEN <<>>
    ELSE TargetsOrNone(BuildTargets(response, a.investigated_urls, NEXT_STEPS_PRIORITY))

\* _generate_new_leads: the queue is updated inside the try block, after the loops
_generate_new_leads(a, response) ==
    LET b == BuildTargets(response, a.investigated_urls, NEW_LEADS_PRIORITY)
    IN  IF b.raised THEN a
        ELSE _log_to_research_log(_update_research_queue(a, b.targets),
                                  LogRecord("new_leads_generation", NONE))

\* the 'llm_consultation' record _consult_llm_for_next_steps writes before it
\* returns its targets
ConsultationLogged(a, discoveries, response) ==
    IF discoveries = <<>> THEN a
    ELSE IF BuildTargets(response, a.investigated_urls, NEXT_STEPS_PRIORITY).raised THEN a
    ELSE _log_to_research_log(a, LogRecord("llm_consultation", NONE))

-----------------------------------------------------------------------------
(***************************************************************************)
(* What the collaborators may answer.                                      *)
(***************************************************************************)
\* results of llm.generate_research_strategy after the fallback of
\* _get_initial_research_strategy
Strategy(sources, search_queries) == [sources |-> sources, search_queries |-> search_queries]
Strategies ==
    { Strategy(<<U_BAD>>, <<>>),
      Strategy(<<U_ETH>>, <<Q1>>),
      Strategy(<<U_CAL, U_ETH>>, <<>>),
      Strategy(<<U_GH, U_EX>>, <<>>) }

\* outcomes of crawler.search: an exception or a list of result urls
Found(status, results) == [status |-> status, results |-> results]
NO_SEARCH == Found("ok", <<>>)
SearchOutcomes ==
    { Found("raise", <<>>), NO_SEARCH, Found("ok", <<U_ETH, NONE, U_EX>>),
      Found("ok", <<U_ETH, NONE, NONE, NONE, NONE, NONE, NONE, NONE, NONE, U_EX,
                    U_GH>>) }

\* outcomes of wayback.get_snapshots(url): an exception or a list of snapshots;
\* capture is the number of the capture in the archive; capture 2 comes without
\* a wayback_url
Snapshot(url, i) ==
    [timestamp |-> TIMESTAMPS[i].c,
     wayback_url |-> IF i = 2 THEN NONE
                     ELSE ARCHIVE_PREFIX \o TIMESTAMPS[i].s \o "/" \o url,
     capture |-> i]

Listing(status, snapshots, captures) ==
    [status |-> status, snapshots |-> snapshots, captures |-> captures]
NO_LISTING == Listing("ok", <<>>, <<>>)
Listings(url) ==
    {Listing("raise", <<>>, <<>>)}
    \cup {Listing("ok", [i \in 1..n |-> Snapshot(url, i)], SNAPSHOT_PAGES) :
             n \in 0..MaxSnapshots}

World(page, listing, sample, found) ==
    [page |-> page, listing |-> listing, sample |-> sample, found |-> found]

\* the answers that a dispatch of target can come to use
Worlds(target) ==
    LET calendar == target.type = "website" /\ IsCalendarUrl(target.url)
        pages == IF target.type \in {"website", "github"} THEN PagesAt(target.url)
                 ELSE {PAGE_EMPTY}
        fallback(page) == calendar /\ page.status # "ok"
        asked(page) ==
            \/ target.type = "wayback"
            \/ fallback(page)
            \/ target.type = "website" /\ target.use_wayback /\ page.status = "empty"
        listed(page) ==
            IF asked(page)
            THEN Listings(IF target.type # "wayback" /\ fallback(page)
                          THEN CalendarMatch(target.url).original_url
                          ELSE target.url)
            ELSE {NO_LISTING}
        found == IF target.type = "search" THEN SearchOutcomes ELSE {NO_SEARCH}
    IN  UNION { UNION { { World(page, listing, sample, f) :
                            sample \in Samples(listing.snapshots), f \in found } :
                        listing \in listed(page) } :
                page \in pages }

-----------------------------------------------------------------------------
(***************************************************************************)
(* State.                                                                  *)
(***************************************************************************)
VARIABLES
    max_iterations,       \* self.max_iterations
    max_idle_iterations,  \* self.max_idle_iterations
    research_queue,       \* self.research_queue
    investigated_urls,    \* self.investigated_urls
    discoveries,          \* self.discoveries
    entity_aliases,       \* self.entity_aliases
    current_iteration,    \* self.current_iteration
    idle_iterations,      \* self.idle_iterations
    pc,                   \* position in start_investigation
    target,               \* local of the loop: the target popped in this iteration
    new_discoveries,      \* local of the loop: what the dispatch returned
    time_over,            \* time.time() - self.start_time >= self.max_time_seconds
    stop_reason,          \* which message announced the end of the loop
    reports,              \* calls of _generate_investigation_report
    dispatched,           \* ghost: the visited keys of the targets dispatched so far
    low_scored,           \* ghost: the contents skipped for their score so far
    trace,                \* ghosts, see the handlers above
    extraction            \* calls of extract_artifacts_from_html on one input

vars == <<max_iterations, max_idle_iterations, research_queue, investigated_urls,
          discoveries, entity_aliases, current_iteration, idle_iterations, pc,
          target, new_discoveries, time_over, stop_reason, reports, dispatched,
          low_scored, trace, extraction>>

\* no call of the extractor on its own
NO_EXTRACTION ==
    [html_content |-> PAGE_EMPTY, url |-> NONE, date |-> <<>>, calls |-> 0,
     returned |-> <<>>, earlier |-> <<>>, artifact_hashes |-> {}]

NO_TARGET == Target("none", NONE, NONE, 0, FALSE, <<>>)

\* no prompt built in the step
NO_CONTEXT == [lines |-> <<>>, aliases |-> {}]

\* the ghosts at the start of an iteration
FreshTrace(inserted) ==
    [inserted |-> inserted, dropped |-> {}, fetches |-> 0, listings |-> 0,
     searches |-> 0, llm_calls |-> 0, snapshots |-> <<>>, selected |-> <<>>,
     snapshot_fetches |-> 0, advice |-> "none", json_str |-> "none",
     log |-> <<>>, results |-> <<>>, direct |-> "none", year_range |-> <<>>,
     offered |-> {}, scored |-> {}, context |-> NO_CONTEXT, duplicates |-> {},
     rejected |-> {}, failures |-> 0, fetch_failures |-> 0, broke |-> FALSE]

\* the agent at the start of a step, whose ghosts describe that step only
StartAgent ==
    [research_queue |-> research_queue, investigated_urls |-> investigated_urls,
     discoveries |-> discoveries, entity_aliases |-> entity_aliases,
     inserted |-> trace.inserted, dropped |-> {}, fetches |-> 0,
     listings |-> 0, searches |-> 0, llm_calls |-> 0, snapshots |-> <<>>,
     selected |-> <<>>, snapshot_fetches |-> 0, advice |-> "none",
     json_str |-> "none", log |-> <<>>, results |-> <<>>,
     direct |-> "none", year_range |-> <<>>,
     offered |-> {}, scored |-> {}, context |-> NO_CONTEXT, duplicates |-> {},
     rejected |-> {}, failures |-> 0, fetch_failures |-> 0]

\* the agent after a handler ran
Becomes(a) ==
    /\ research_queue' = a.research_queue
    /\ investigated_urls' = a.investigated_urls
    /\ discoveries' = a.discoveries
    /\ entity_aliases' = a.entity_aliases
    /\ trace' = [inserted |-> a.inserted, dropped |-> a.dropped, fetches |-> a.fetches,
                 listings |-> a.listings, searches |-> a.searches,
                 llm_calls |-> a.llm_calls, snapshots |-> a.snapshots,
                 selected |-> a.selected, snapshot_fetches |-> a.snapshot_fetches,
                 advice |-> a.advice, json_str |-> a.json_str, log |-> a.log,
                 results |-> a.results, direct |-> a.direct,
                 year_range |-> a.year_range, offered |-> a.offered,
                 scored |-> a.scored, context |-> a.context,
                 duplicates |-> a.duplicates,
                 rejected |-> a.rejected,
                 failures |-> a.failures, fetch_failures |-> a.fetch_failures,
                 broke |-> FALSE]

Init ==
    /\ max_iterations \in 0..MaxIterationsBound
    /\ max_idle_iterations \in 0..MaxIdleBound
    /\ research_queue = <<>>
    /\ investigated_urls = {}
    /\ discoveries = <<>>
    /\ entity_aliases = {ENTITY}
    /\ current_iteration = 0
    /\ idle_iterations = 0
    /\ pc = "init"
    /\ target = NO_TARGET
    /\ new_discoveries = <<>>
    /\ time_over = FALSE
    /\ stop_reason = "none"
    /\ reports = 0
    /\ dispatched = {}
    /\ low_scored = {}
    /\ trace = FreshTrace(0)
    /\ extraction = NO_EXTRACTION

-----------------------------------------------------------------------------
(***************************************************************************)
(* Actions: the steps of start_investigation.                              *)
(***************************************************************************)
\* the initial targets _initialize_research builds from the strategy
RECURSIVE SourceTargets(_)
SourceTargets(sources) ==
    IF sources = <<>> THEN <<>>
    ELSE (IF _is_valid_url(Head(sources))
          THEN <<Target("website", Head(sources), NONE, 10, TRUE, <<>>)>>
          ELSE <<>>)
         \o SourceTargets(Tail(sources))

QueryTargets(search_queries) ==
    [i \in DOMAIN search_queries |->
        Target("search", NONE, search_queries[i], 8, FALSE, <<>>)]

\* _initialize_research
InitializeResearch ==
    /\ pc = "init"
    /\ \E initial_strategy \in Strategies :
          Becomes(_log_to_research_log(
                      _update_research_queue(StartAgent,
                          SourceTargets(initial_strategy.sources)
                          \o QueryTargets(initial_strategy.search_queries)),
                      LogRecord("initialization", NONE)))
    /\ pc' = "check"
    /\ UNCHANGED <<extraction, max_iterations, max_idle_iterations, current_iteration,
                   idle_iterations, target, new_discoveries, time_over,
                   stop_reason, reports, dispatched, low_scored>>

\* a guard without the iteration limit
StopGuardWithoutIterationLimit(iteration, idle, elapsed_over) ==
    IF idle >= max_idle_iterations THEN "idle"
    ELSE IF elapsed_over THEN "time"
    ELSE "none"

\* a guard that stops only when the idle count is above its limit
StopGuardIdleExceeded(iteration, idle, elapsed_over) ==
    IF iteration >= max_iterations THEN "iterations"
    ELSE IF idle > max_idle_iterations THEN "idle"
    ELSE IF elapsed_over THEN "time"
    ELSE "none"

\* _should_continue_investigation: the reason for stopping, "none" to go on
StopGuard(iteration, idle, elapsed_over) ==
    IF iteration >= max_iterations THEN "iterations"
    ELSE IF idle >= max_idle_iterations THEN "idle"
    ELSE IF elapsed_over THEN "time"
    ELSE "none"

\* the while condition and, when it holds, the first statement of the body
ShouldContinue ==
    /\ pc = "check"
    /\ \E elapsed_over \in (IF time_over THEN {TRUE} ELSE BOOLEAN) :
          LET reason == StopGuard(current_iteration, idle_iterations, elapsed_over)
          IN  /\ time_over' = elapsed_over
              /\ stop_reason' = reason
              /\ IF reason = "none"
                 THEN /\ current_iteration' = current_iteration + 1
                      /\ pc' = "pop"
                 ELSE /\ current_iteration' = current_iteration
                      /\ pc' = "report"
    /\ target' = NO_TARGET
    /\ new_discoveries' = <<>>
    /\ trace' = FreshTrace(trace.inserted)
    /\ UNCHANGED <<extraction, max_iterations, max_idle_iterations, research_queue,
                   investigated_urls, discoveries, entity_aliases,
                   idle_iterations, reports, dispatched, low_scored>>

\* an idle test that lets the loop body go on at the limit
IdleLimitExceeded(idle) == idle > max_idle_iterations

\* an idle test that never ends the loop inside an iteration
IdleLimitNever(idle) == FALSE

\* 'if self.idle_iterations >= self.max_idle_iterations' inside the loop body
IdleLimitReached(idle) == idle >= max_idle_iterations

\* _get_next_investigation_target and the branch taken when it returns None
GetNextTarget ==
    /\ pc = "pop"
    /\ IF research_queue = <<>>
       THEN /\ idle_iterations' = idle_iterations + 1
            /\ IF IdleLimitReached(idle_iterations + 1)
               THEN /\ pc' = "report"
                    /\ stop_reason' = "idle"
                    /\ trace' = [trace EXCEPT !.broke = TRUE]
               ELSE /\ pc' = "leads"
                    /\ UNCHANGED <<stop_reason, trace>>
            /\ UNCHANGED <<research_queue, target>>
       ELSE /\ target' = Head(research_queue)
            /\ research_queue' = Tail(research_queue)
            /\ pc' = "dispatch"
            /\ UNCHANGED <<idle_iterations, stop_reason, trace>>
    /\ UNCHANGED <<extraction, max_iterations, max_idle_iterations, investigated_urls,
                   discoveries, entity_aliases, current_iteration,
                   new_discoveries, time_over, reports, dispatched, low_scored>>

\* the keys under which the suggestions of a response the loops run through
\* would be recorded as investigated
SuggestedKeys(response) ==
    LET json_str == _extract_json(response)
        Urls(f) == {f.items[i].url : i \in DOMAIN f.items} \ {NONE}
        Queries(f) == {f.items[i].query : i \in DOMAIN f.items} \ {NONE}
    IN  IF Usability(response) = "unusable" THEN {}
        ELSE Urls(json_str.website_targets)
             \cup {"search:" \o q : q \in Queries(json_str.search_queries)}
             \cup {"wayback:" \o u : u \in Urls(json_str.wayback_targets)}
             \cup Urls(json_str.github_targets)

\* _prepare_llm_context: for every discovery the line
\* "{i+1}. [{type}] {summary} (Source: {source_url})", then the aliases other
\* than the entity when the alias set holds more than one; the pieces the
\* text is formatted from
_prepare_llm_context(found, aliases) ==
    [lines |-> [k \in DOMAIN found |->
                   [type |-> found[k].type, summary |-> found[k].summary,
                    source |-> found[k].source_url]],
     aliases |-> IF Cardinality(aliases) > 1 THEN aliases \ {ENTITY} ELSE {}]

\* sorted(self.discoveries, key=score, reverse=True): stable, descending
RECURSIVE InsertByScore(_, _)
InsertByScore(sorted, d) ==
    IF sorted = <<>> THEN <<d>>
    ELSE IF Head(sorted).score >= d.score
         THEN <<Head(sorted)>> \o InsertByScore(Tail(sorted), d)
         ELSE <<d>> \o sorted

RECURSIVE SortByScore(_)
SortByScore(found) ==
    IF found = <<>> THEN <<>>
    ELSE InsertByScore(SortByScore(SubSeq(found, 1, Len(found) - 1)),
                       found[Len(found)])

\* sorted_discoveries[:20]
TopDiscoveries(found) ==
    LET sorted_discoveries == SortByScore(found)
    IN  SubSeq(sorted_discoveries, 1, IF Len(found) < 20 THEN Len(found) ELSE 20)

\* the agent once a prompt was built: the context the prompt holds, next to
\* the objective and fixed text
Prompted(a, found) ==
    [a EXCEPT !.context = _prepare_llm_context(found, a.entity_aliases)]

\* the agent once the advisory was called: the call, what the response is worth,
\* what _extract_json made of its text ("none" when the call raised) and the
\* keys of what it suggested
Consulted(a, response) ==
    [a EXCEPT !.llm_calls = 1,
              !.advice = Usability(response),
              !.offered = SuggestedKeys(response),
              !.json_str = IF response.call = "raise" THEN "none"
                           ELSE _extract_json(response).kind]

\* _generate_new_leads, then 'continue'
GenerateNewLeads ==
    /\ pc = "leads"
    /\ \E response \in Responses :
          Becomes(_generate_new_leads(
              Consulted(Prompted(StartAgent, discoveries), response),
              response))
    /\ pc' = "check"
    /\ UNCHANGED <<extraction, max_iterations, max_idle_iterations, current_iteration,
                   idle_iterations, target, new_discoveries, time_over,
                   stop_reason, reports, dispatched, low_scored>>

\* a bookkeeping that goes on to the consultation without looking at the
\* discoveries
AlwaysConsult(r) ==
    /\ Becomes(r.a)
    /\ new_discoveries' = r.out
    /\ pc' = "consult"
    /\ idle_iterations' = IF r.out # <<>> THEN 0 ELSE idle_iterations + 1

\* a bookkeeping that counts no dispatch as idle
TrackWithoutIdle(r) ==
    /\ Becomes(r.a)
    /\ new_discoveries' = r.out
    /\ IF r.raised
       THEN pc' = "crashed" /\ idle_iterations' = idle_iterations
       ELSE IF r.out # <<>>
       THEN pc' = "consult" /\ idle_iterations' = 0
       ELSE pc' = "check" /\ idle_iterations' = idle_iterations

\* a bookkeeping that never sets the idle count back to 0
TrackWithoutReset(r) ==
    /\ Becomes(r.a)
    /\ new_discoveries' = r.out
    /\ IF r.raised
       THEN pc' = "crashed" /\ idle_iterations' = idle_iterations
       ELSE IF r.out # <<>>
       THEN pc' = "consult" /\ idle_iterations' = idle_iterations
       ELSE pc' = "check" /\ idle_iterations' = idle_iterations + 1

\* the bookkeeping that follows _execute_investigation: an exception would
\* leave the loop; discoveries reset the idle count and lead to the
\* consultation; without any the idle count grows and the iteration ends
TrackDiscoveries(r) ==
    /\ Becomes(r.a)
    /\ new_discoveries' = r.out
    /\ IF r.raised
       THEN pc' = "crashed" /\ idle_iterations' = idle_iterations
       ELSE IF r.out # <<>>
       THEN pc' = "consult" /\ idle_iterations' = 0
       ELSE pc' = "check" /\ idle_iterations' = idle_iterations + 1

\* _execute_investigation and the bookkeeping of the iteration; with no new
\* discoveries the iteration ends here (_save_state)
ExecuteInvestigation ==
    /\ pc = "dispatch"
    /\ \E world \in Worlds(target) :
          TrackDiscoveries(
              _execute_investigation(StartAgent, target, world, current_iteration))
    /\ dispatched' = dispatched \cup {VisitedKey(target)}
    /\ low_scored' = low_scored \cup trace'.rejected
    /\ UNCHANGED <<extraction, max_iterations, max_idle_iterations, current_iteration,
                   target, time_over, stop_reason, reports>>

\* _consult_llm_for_next_steps, _update_research_queue, the log record, _save_state
ConsultLLM ==
    /\ pc = "consult"
    /\ \E response \in Responses :
          LET new_targets ==
                  _consult_llm_for_next_steps(StartAgent, new_discoveries, response)
          IN  Becomes(_log_investigation_results(
                  _update_research_queue(
                      ConsultationLogged(
                          Consulted(Prompted(StartAgent, new_discoveries), response),
                          new_discoveries, response),
                      new_targets),
                  target))
    /\ pc' = "check"
    /\ UNCHANGED <<extraction, max_iterations, max_idle_iterations, current_iteration,
                   idle_iterations, target, new_discoveries, time_over,
                   stop_reason, reports, dispatched, low_scored>>

\* a run that ends after the loop without generating the report
EndWithoutReport ==
    /\ pc = "report"
    /\ pc' = "done"
    /\ UNCHANGED <<extraction, max_iterations, max_idle_iterations, research_queue,
                   investigated_urls, discoveries, entity_aliases,
                   current_iteration, idle_iterations, target, new_discoveries,
                   time_over, stop_reason, dispatched, low_scored, trace, reports>>

\* _generate_investigation_report, after the loop, with the prompt of
\* _generate_investigation_summary
GenerateReport ==
    /\ pc = "report"
    /\ reports' = reports + 1
    /\ pc' = "done"
    /\ trace' = [trace EXCEPT
                    !.context = _prepare_llm_context(TopDiscoveries(discoveries),
                                                     entity_aliases)]
    /\ UNCHANGED <<extraction, max_iterations, max_idle_iterations, research_queue,
                   investigated_urls, discoveries, entity_aliases,
                   current_iteration, idle_iterations, target, new_discoveries,
                   time_over, stop_reason, dispatched, low_scored>>

Next ==
    \/ InitializeResearch
    \/ ShouldContinue
    \/ GetNextTarget
    \/ GenerateNewLeads
    \/ ExecuteInvestigation
    \/ ConsultLLM
    \/ GenerateReport

Spec == Init /\ [][Next]_vars

-----------------------------------------------------------------------------
(***************************************************************************)
(* _execute_investigation on a target of a kind the agent never builds     *)
(* itself (every target the code constructs is a website, search, wayback  *)
(* or github target): the run starts with one such target already in the   *)
(* frontier, as a caller of the agent could have put it there, and goes on *)
(* as any run.                                                             *)
(***************************************************************************)
KNOWN_TYPES == {"website", "search", "wayback", "github"}

\* target.get('type', 'unknown'): a type the dispatch has no branch for, or
\* no type at all; one ahead of the initial targets, one behind the first
\* of them
FOREIGN_TARGETS ==
    {Target("rss", U_EX, NONE, 10, FALSE, <<>>),
     Target("unknown", U_ETH, NONE, 9, FALSE, <<>>)}

DispatchInit ==
    /\ max_iterations = MaxIterationsBound
    /\ max_idle_iterations \in {MaxIdleBound, MaxIdleBound + 1}
    /\ research_queue \in {<<foreign>> : foreign \in FOREIGN_TARGETS}
    /\ investigated_urls = {}
    /\ discoveries = <<>>
    /\ entity_aliases = {ENTITY}
    /\ current_iteration = 0
    /\ idle_iterations = 0
    /\ pc = "init"
    /\ target = NO_TARGET
    /\ new_discoveries = <<>>
    /\ time_over = FALSE
    /\ stop_reason = "none"
    /\ reports = 0
    /\ dispatched = {}
    /\ low_scored = {}
    /\ trace = FreshTrace(1)
    /\ extraction = NO_EXTRACTION

DispatchSpec == DispatchInit /\ [][Next]_vars

-----------------------------------------------------------------------------
(***************************************************************************)
(* extract_artifacts_from_html on its own: an input (content, locator,     *)
(* date) is drawn, and the function is called on it MaxCalls times in a    *)
(* row.  extraction holds the input, the artifacts the last call returned, *)
(* those the call before it returned, and the hash set the last call       *)
(* ended with.                                                             *)
(***************************************************************************)
MaxCalls == 2

EXTRACT_PAGES == DOCUMENTS \cup {PAGE_EMPTY}
EXTRACT_URLS == {U_ETH, U_EX, U_GH, U_CAL, U_NOT}
EXTRACT_DATES == {<<>>, Chars("2014"), Chars("2023")}

ExtractInit ==
    /\ max_iterations = 0
    /\ max_idle_iterations = 0
    /\ research_queue = <<>>
    /\ investigated_urls = {}
    /\ discoveries = <<>>
    /\ entity_aliases = {ENTITY}
    /\ current_iteration = 0
    /\ idle_iterations = 0
    /\ pc = "init"
    /\ target = NO_TARGET
    /\ new_discoveries = <<>>
    /\ time_over = FALSE
    /\ stop_reason = "none"
    /\ reports = 0
    /\ dispatched = {}
    /\ low_scored = {}
    /\ trace = FreshTrace(0)
    /\ \E page \in EXTRACT_PAGES, url \in EXTRACT_URLS, date \in EXTRACT_DATES :
          extraction = [NO_EXTRACTION EXCEPT !.html_content = page,
                                             !.url = url, !.date = date]

\* the hashes recorded when a call returns
HashesOf(artifacts) == {artifacts[k].hash : k \in DOMAIN artifacts}

\* one call of extract_artifacts_from_html(html_content, url, date)
Extract ==
    /\ extraction.calls < MaxCalls
    /\ extraction' =
          [extraction EXCEPT
              !.calls = @ + 1,
              !.earlier = extraction.returned,
              !.returned = ExtractFrom(extraction.html_content, extraction.url,
                                       extraction.date,
                                       FreshHashes(extraction.artifact_hashes)),
              !.artifact_hashes =
                  FreshHashes(extraction.artifact_hashes)
                  \cup HashesOf(ExtractFrom(extraction.html_content, extraction.url,
                                            extraction.date,
                                            FreshHashes(extraction.artifact_hashes)))]
    /\ UNCHANGED <<max_iterations, max_idle_iterations, research_queue,
                   investigated_urls, discoveries, entity_aliases,
                   current_iteration, idle_iterations, pc, target,
                   new_discoveries, time_over, stop_reason, reports, dispatched,
                   low_scored,
                   trace>>

ExtractNext == Extract

ExtractSpec == ExtractInit /\ [][ExtractNext]_vars

TypeOK ==
    /\ pc \in {"init", "check", "pop", "leads", "dispatch", "consult", "report",
               "done", "crashed"}
    /\ current_iteration \in Nat
    /\ idle_iterations \in Nat

-----------------------------------------------------------------------------
(***************************************************************************)
(* Properties.                                                             *)
(***************************************************************************)

\* C1: in every reachable state no two entries of the discoveries list have
\* the same content hash (the hash of the lower-cased content with all
\* whitespace removed), whatever documents and snapshots were processed; two
\* artifacts that differ only in capitalization or whitespace give at most
\* one Discovery.
C1_DistinctContentHashes ==
    \A i, j \in DOMAIN discoveries :
        i # j => generate_hash(discoveries[i].content) # generate_hash(discoveries[j].content)

\* C1 happens: the address was recorded in lower case from one document, and
\* the same address in upper case, met in another document, was turned down
C1_CaseVariantTurnedDown ==
    /\ ADDR_UPPER \in trace.duplicates
    /\ \E i \in DOMAIN discoveries : discoveries[i].content = ADDR_LOWER
    /\ \A i \in DOMAIN discoveries : discoveries[i].content # ADDR_UPPER

\* C2: whatever pushes and pops came before, a pop returns a target of the
\* frontier whose priority is the maximum of the priorities in the frontier,
\* and among targets of that priority the one inserted first (seq numbers the
\* insertions); the frontier loses exactly that target.
C2_PopMaxPriorityOldestFirst ==
    [][(pc = "pop" /\ research_queue # <<>>) =>
          /\ \E i \in DOMAIN research_queue : target' = research_queue[i]
          /\ \A i \in DOMAIN research_queue :
                \/ research_queue[i].priority < target'.priority
                \/ /\ research_queue[i].priority = target'.priority
                   /\ research_queue[i].seq >= target'.seq
          /\ Len(research_queue') = Len(research_queue) - 1
          /\ \A i \in DOMAIN research_queue' :
                \E j \in DOMAIN research_queue :
                    research_queue'[i] = research_queue[j] /\ research_queue[j] # target'
      ]_vars

\* C2 happens: the popped target came before a younger target of its own
\* priority and overtook an older target of lower priority
C2_PoppedAheadOfEqualAndOlder ==
    /\ pc = "dispatch"
    /\ \E i \in DOMAIN research_queue :
          /\ research_queue[i].priority = target.priority
          /\ research_queue[i].seq > target.seq
    /\ \E j \in DOMAIN research_queue :
          /\ research_queue[j].priority < target.priority
          /\ research_queue[j].seq < target.seq

\* the targets a step inserts into the frontier: seq numbers the insertions
\* and trace.inserted counts the insertions made before the step
InsertedByStep ==
    {research_queue'[i] : i \in {j \in DOMAIN research_queue' :
                                    research_queue'[j].seq >= trace.inserted}}

\* C3: for every kind of target, once a target with visited key K has been
\* dispatched, no target with the same key K that is pushed afterwards enters
\* the frontier.  (Fails: a website target whose locator is an archive
\* calendar locator is dispatched without its key being recorded.)
C3_DispatchedKeyNeverInsertedAgain ==
    [][\A t \in InsertedByStep : VisitedKey(t) \notin dispatched]_vars

\* C4 as stated: in every reachable state no target in the frontier has a
\* visited key that is in the visited set.  (Fails: push filters only the
\* targets it is handed; a target stays queued when its key is visited later.)
C4_NoQueuedTargetIsVisited ==
    \A i \in DOMAIN research_queue :
        VisitedKey(research_queue[i]) \notin investigated_urls

\* C4, amended: no step inserts into the frontier a target whose visited key
\* is in the visited set when the step's push is made (after the push the
\* step records no further key, so this is the visited set the step ends with).
C4_NoVisitedTargetInserted ==
    [][\A t \in InsertedByStep : VisitedKey(t) \notin investigated_urls']_vars

\* C4 happens: a dispatch pushed a target whose key was visited, and push
\* dropped it
C4_PushDroppedVisitedTarget ==
    /\ pc \in {"check", "consult"}
    /\ \E t \in trace.dropped : VisitedKey(t) \in investigated_urls

\* how far a run is from its end: the iterations left, then the steps left
\* in the iteration
StepsLeft ==
    6 * (max_iterations - current_iteration)
    + (CASE pc = "init" -> 6
         [] pc = "pop" -> 5
         [] pc \in {"leads", "dispatch"} -> 4
         [] pc = "consult" -> 3
         [] pc = "check" -> 2
         [] pc = "report" -> 1
         [] OTHER -> 0)

\* C5: the iteration counter changes only by growing by one, it grows exactly
\* when the loop body is entered (idle iterations included), and it never
\* exceeds max_iterations; every run ends after at most max_iterations
\* iterations whatever the advisory keeps suggesting, provided every
\* collaborator call returns: every step of the loop brings the run nearer to
\* its end (StepsLeft is a natural number that every step decreases), and the
\* step that reaches 0 is the writing of the report.
C5_IterationsBoundedAndRunEnds ==
    [][/\ current_iteration' <= max_iterations
       /\ current_iteration' \in {current_iteration, current_iteration + 1}
       /\ (current_iteration' = current_iteration + 1) <=> (pc = "check" /\ pc' = "pop")
       /\ StepsLeft' \in Nat
       /\ StepsLeft' < StepsLeft
       /\ pc' \in {"check", "pop", "leads", "dispatch", "consult", "report", "done"}
       /\ pc' = "done" <=> pc = "report"
      ]_vars

\* C5 happens: a run ended by the iteration limit after max_iterations
\* iterations, with targets still waiting in the frontier
C5_EndedAtIterationLimit ==
    /\ pc = "done"
    /\ max_iterations >= 2
    /\ current_iteration = max_iterations
    /\ stop_reason = "iterations"
    /\ research_queue # <<>>

\* C6 as stated, read with the wall-clock limit not reached: when nothing ever
\* enters the frontier (it is empty at every pop and the advisory never yields
\* a target) and max_idle_iterations <= max_iterations, the run ends after
\* exactly max_idle_iterations iterations and the reported cause is the idle
\* guard.  (Fails for max_iterations = max_idle_iterations = 0: the iteration
\* guard is tested first and is the reported cause.)
C6_EmptyFrontierEndsByIdleGuard ==
    (/\ pc \in {"report", "done"}
     /\ trace.inserted = 0
     /\ ~time_over
     /\ max_idle_iterations <= max_iterations)
    => (current_iteration = max_idle_iterations /\ stop_reason = "idle")

\* C6, amended: when nothing ever enters the frontier, the wall-clock limit is
\* not reached, max_idle_iterations <= max_iterations and max_iterations >= 1,
\* the run ends after exactly max_idle_iterations iterations and the reported
\* cause is the idle guard.
C6_EmptyFrontierEndsByIdleGuardAmended ==
    (/\ pc \in {"report", "done"}
     /\ trace.inserted = 0
     /\ ~time_over
     /\ max_idle_iterations <= max_iterations
     /\ max_iterations >= 1)
    => (current_iteration = max_idle_iterations /\ stop_reason = "idle")

\* C6 happens: a run in which nothing ever entered the frontier has ended
\* after two or more idle iterations, before the iteration limit
C6_EndedIdleWithEmptyFrontier ==
    /\ pc = "done"
    /\ trace.inserted = 0
    /\ ~time_over
    /\ max_idle_iterations >= 2
    /\ max_idle_iterations < max_iterations
    /\ current_iteration = max_idle_iterations

\* the stop guard is evaluated in the order iterations, idle, time, the first
\* limit that holds is the reported cause, and the loop body is entered (and a
\* target popped) only when no limit holds
GuardOrder ==
    /\ pc = "check" =>
          /\ current_iteration >= max_iterations =>
                pc' = "report" /\ stop_reason' = "iterations"
          /\ (current_iteration < max_iterations
              /\ idle_iterations >= max_idle_iterations) =>
                pc' = "report" /\ stop_reason' = "idle"
          /\ (current_iteration < max_iterations
              /\ idle_iterations < max_idle_iterations /\ time_over') =>
                pc' = "report" /\ stop_reason' = "time"
          /\ (current_iteration < max_iterations
              /\ idle_iterations < max_idle_iterations /\ ~time_over') =>
                pc' = "pop" /\ stop_reason' = "none"
    /\ pc' = "dispatch" => (pc = "pop" /\ stop_reason = "none")
    /\ (research_queue # <<>> /\ research_queue' = Tail(research_queue)) =>
          (pc = "pop" /\ stop_reason = "none")

\* C7 as stated: the loop is left only through the stop guard tested at the
\* top of an iteration, with the guard order and the no-pop rule above.
\* (Fails: the loop is also left from inside an iteration.)
C7_LoopEndsOnlyAtTopGuard ==
    [][(pc' = "report" => pc = "check") /\ GuardOrder]_vars

\* C7, amended: the loop is left either through the stop guard tested at the
\* top of an iteration, or from inside an iteration that found the frontier
\* empty and whose idle count, raised by one, reached max_idle_iterations (the
\* reported cause is then the idle limit); the guard order and the no-pop rule
\* are as stated.
C7_LoopEndsAtTopGuardOrIdleBreak ==
    [][/\ pc' = "report" =>
             \/ pc = "check"
             \/ /\ pc = "pop"
                /\ research_queue = <<>>
                /\ idle_iterations' = idle_iterations + 1
                /\ idle_iterations' >= max_idle_iterations
                /\ stop_reason' = "idle"
       /\ (/\ pc = "pop"
           /\ research_queue = <<>>
           /\ idle_iterations + 1 >= max_idle_iterations) => pc' = "report"
       /\ GuardOrder
      ]_vars

\* C7 happens: the loop was left from inside an iteration, before the
\* iteration limit
C7_LeftLoopInsideIteration ==
    /\ pc = "report"
    /\ trace.broke
    /\ stop_reason = "idle"
    /\ current_iteration < max_iterations

\* C8: when the fetch, snapshot-list or search collaborator raises or comes
\* back empty during the dispatch of a target of any kind, no exception leaves
\* the dispatch and the loop goes on with the rest of the iteration; a
\* dispatch in which no fetch succeeded returns no discoveries and records
\* none; the loop is left only by the iteration, idle or time limit.
C8_CollaboratorFailuresAbsorbed ==
    [][/\ pc = "dispatch" =>
             /\ pc' \in {"consult", "check"}
             /\ trace'.fetch_failures <= trace'.fetches
             /\ trace'.fetch_failures = trace'.fetches =>
                   new_discoveries' = <<>> /\ discoveries' = discoveries
             /\ new_discoveries' = <<>> =>
                   pc' = "check" /\ idle_iterations' = idle_iterations + 1
       /\ pc' = "report" => stop_reason' \in {"iterations", "idle", "time"}
       /\ pc' # "crashed"
      ]_vars

\* C8 happens: in one dispatch two or more fetches failed, another one
\* succeeded and gave discoveries, and the loop went on
C8_FailuresBesideDiscoveries ==
    /\ pc = "consult"
    /\ trace.fetch_failures >= 2
    /\ trace.failures >= 2
    /\ new_discoveries # <<>>

\* the step made with an advisory response, on either consultation path,
\* yields no new target and changes neither frontier, visited set nor
\* discoveries, and the loop goes on
AdviceChangesNothing ==
    /\ research_queue' = research_queue
    /\ trace'.inserted = trace.inserted
    /\ investigated_urls' = investigated_urls
    /\ discoveries' = discoveries
    /\ pc' = "check"

\* C9 as stated: a response that is not usable (failed call, no JSON, invalid
\* JSON, JSON that is not an object of lists of objects) changes nothing on
\* either consultation path.  (Fails: an object in which one field is an empty
\* string or an empty object instead of a list still yields the targets of its
\* other fields.)
C9_UnusableAdviceChangesNothing ==
    [][(pc \in {"leads", "consult"} /\ trace'.advice \in {"unusable", "irregular"})
         => AdviceChangesNothing]_vars

\* C9, amended: a response changes nothing, on either consultation path, when
\* the call failed, the response holds no JSON or invalid JSON, the JSON is not
\* an object, or a suggestion field is present that is neither a list nor an
\* empty string or object, or that has an element that is not an object.
C9_RaisingAdviceChangesNothing ==
    [][(pc \in {"leads", "consult"} /\ trace'.advice = "unusable")
         => AdviceChangesNothing]_vars

\* C9 happens: after discoveries the advisory was consulted, its response
\* was unusable, and the loop went on
C9_UnusableAdviceAfterDiscoveries ==
    /\ pc = "check"
    /\ new_discoveries # <<>>
    /\ trace.llm_calls = 1
    /\ trace.advice = "unusable"

\* C10: the snapshots selected for fetching from one listing are at most 5,
\* all of them snapshots of the listing, and exactly the listing when it has
\* 5 or fewer entries; so one history dispatch makes at most 5 snapshot
\* fetches.
C10_AtMostFiveSnapshotsSelected ==
    /\ Len(trace.selected) <= 5
    /\ \A i \in DOMAIN trace.selected :
          \E j \in DOMAIN trace.snapshots : trace.selected[i] = trace.snapshots[j]
    /\ Len(trace.snapshots) <= 5 => trace.selected = trace.snapshots
    /\ trace.snapshot_fetches <= Len(trace.selected)
    /\ trace.snapshot_fetches <= 5

\* C10 happens: a listing of more than 5 snapshots was sampled down to 5, and
\* all 5 were fetched
C10_LongListingSampled ==
    /\ Len(trace.snapshots) > 5
    /\ Len(trace.selected) = 5
    /\ trace.snapshot_fetches = 5

\* C11: every discovery in the discoveries list has a score, after the
\* controller's adjustments, strictly greater than 0, in every state of the
\* run (an artifact whose adjusted score is <= 0 is never appended).
C11_DiscoveriesScorePositive ==
    /\ \A k \in DOMAIN discoveries : discoveries[k].score > 0
    /\ \A k \in DOMAIN new_discoveries : new_discoveries[k].score > 0

\* C11 happens: beside earlier discoveries, a contract whose comment holds a
\* warning phrase was extracted and skipped for its score
C11_WarnedContractSkipped ==
    /\ discoveries # <<>>
    /\ DOC_CONTRACT_WARNED.matches[1].content \in trace.rejected
    /\ \A k \in DOMAIN discoveries :
          discoveries[k].content # DOC_CONTRACT_WARNED.matches[1].content

\* the labeled 64-hex keys of the documents whose text holds a warning phrase
WARNED_KEYS ==
    UNION { {m.group : m \in {FindIter(LabeledKeyAt, get_text(d.soup), 1)[k] :
                                k \in DOMAIN FindIter(LabeledKeyAt, get_text(d.soup), 1)}} :
            d \in {w \in DOCUMENTS :
                      \E phrase \in WARNING_PHRASES :
                          Contains(Lower(get_text(w.soup)), phrase)} }

\* C12: a labeled 64-hex key extracted from a document that also holds a
\* warning phrase such as "example only" is never promoted to a discovery,
\* whatever the locator it was found at.
C12_WarnedKeyNeverPromoted ==
    \A k \in DOMAIN discoveries : discoveries[k].content \notin WARNED_KEYS

\* C13: the score of every extracted artifact is the plain sum of six
\* independent terms (+3 trusted-domain suffix, +1 domain ending in .org,
\* -5 community-domain suffix, +1 date present and before 2022-01-01, -10
\* content holding a warning phrase, +2 content longer than 20 characters),
\* so it lies in -15..7; for an address found on ethereum.org without a date
\* it is 6.
C13_ScoreIsSumOfSixTerms ==
    \A k \in DOMAIN extraction.returned :
        LET a == extraction.returned[k]
            domain == Netloc(a.url)
            Term(applies, value) == IF applies THEN value ELSE 0
        IN  /\ a.score =
                  Term(\E t \in TRUSTED_DOMAINS : EndsWith(domain, t), 3)
                  + Term(EndsWith(domain, Chars(".org")), 1)
                  + Term(\E c \in COMMUNITY_DOMAINS : EndsWith(domain, c), -5)
                  + Term(a.date # <<>> /\ StrLess(a.date, Chars("2022-01-01")), 1)
                  + Term(\E w \in WARNING_PHRASES : Contains(Lower(a.content), w), -10)
                  + Term(Len(a.content) > 20, 2)
            /\ a.score \in -15..7
            /\ (a.type = "wallet_address" /\ a.url = U_ETH /\ a.date = <<>>)
                   => a.score = 6

\* C13 happens: an address was extracted from a document found on
\* ethereum.org without a date, and scored 6
C13_AddressOnTrustedDomain ==
    /\ extraction.calls >= 1
    /\ extraction.url = U_ETH
    /\ extraction.date = <<>>
    /\ \E k \in DOMAIN extraction.returned :
          /\ extraction.returned[k].type = "wallet_address"
          /\ extraction.returned[k].content = ADDR_LOWER
          /\ extraction.returned[k].score = 6

\* the call ran the families: the content was a document of 100 characters
\* or more
Extracted ==
    /\ extraction.calls >= 1
    /\ extraction.html_content.status = "ok"
    /\ extraction.html_content.length >= 100

\* C14: a candidate phrase labeled as mnemonic / seed phrase is accepted iff
\* its word count is 12, 15, 18, 21 or 24 and all its words are in the
\* wordlist; an accepted candidate yields exactly one seed-phrase artifact
\* for its phrase (the pass over unlabeled blocks adds no second one),
\* whose summary is "[N-word seed phrase redacted]" and does not hold the
\* phrase, which is in the content field.
C14_LabeledPhraseAcceptedIffValid ==
    Extracted =>
        LET candidates == FindIter(LabeledPhraseAt,
                                   get_text(extraction.html_content.soup), 1)
        IN  \A c \in DOMAIN candidates :
                LET text == Lower(Strip(candidates[c].group))
                    words == Split(text)
                    valid == /\ Len(words) \in {12, 15, 18, 21, 24}
                             /\ \A w \in DOMAIN words : words[w] \in BIP39_WORDS
                    made == {k \in DOMAIN extraction.returned :
                                /\ extraction.returned[k].type = "seed_phrase"
                                /\ extraction.returned[k].hash = Normalized(text)}
                IN  /\ Cardinality(made) = IF valid THEN 1 ELSE 0
                    /\ \A k \in made :
                          /\ extraction.returned[k].content = text
                          /\ extraction.returned[k].summary =
                                <<"[">> \o Digits(Len(words))
                                \o Chars("-word seed phrase redacted]")
                          /\ ~Contains(extraction.returned[k].summary, text)

\* C14 happens: a labeled twelve-word phrase, alone in a block that the
\* second pass accepts too, came back as one artifact; and a labeled
\* candidate with a word outside the wordlist came back as none
C14_LabeledPhraseOnce ==
    /\ Extracted
    /\ extraction.html_content = DOC_SEED_LABELED
    /\ BlockPhrases(DOC_SEED_LABELED.soup) # <<>>
    /\ Len(extraction.returned) = 1
    /\ extraction.returned[1].type = "seed_phrase"
    /\ extraction.returned[1].content = PHRASE_ZOO
    /\ FindIter(LabeledPhraseAt, get_text(DOC_SEED_REJECTED.soup), 1) # <<>>
    /\ DOC_SEED_REJECTED.matches = <<>>

\* the types whose content must stay out of summaries
SENSITIVE_TYPES == {"private_key", "seed_phrase", "api_key", "ethereum_keystore"}

\* C15 as stated: the summary of an artifact of a sensitive type depends only
\* on the type and on the content's length or word count (for keystores
\* also on the address field), and never contains the content.
C15_SummaryFromTypeAndLengthOnly ==
    \A j, k \in DOMAIN extraction.returned :
        LET a == extraction.returned[j]
            b == extraction.returned[k]
        IN  /\ a.type \in SENSITIVE_TYPES => ~Contains(a.summary, a.content)
            /\ ( /\ a.type \in SENSITIVE_TYPES \ {"ethereum_keystore"}
                 /\ a.type = b.type
                 /\ Len(a.content) = Len(b.content)
                 /\ Len(Split(a.content)) = Len(Split(b.content)) )
               => a.summary = b.summary

\* C15 amended: the summary of an artifact of a sensitive type is the
\* redaction text of its type filled in with the content's length (keys),
\* the content's word count (seed phrases), the provider's name and the
\* length (API keys) or the keystore's address field, and never contains
\* the content.
C15_SummaryIsRedaction ==
    \A k \in DOMAIN extraction.returned :
        LET a == extraction.returned[k]
            chars == Digits(Len(a.content)) \o Chars(" chars]")
            keystore == Chars("[JSON keystore redacted] - v3 keystore for address 0x")
        IN  a.type \in SENSITIVE_TYPES =>
              /\ ~Contains(a.summary, a.content)
              /\ a.type = "private_key" =>
                    a.summary = Chars("[private key redacted - ") \o chars
              /\ a.type = "seed_phrase" =>
                    a.summary = <<"[">> \o Digits(Len(Split(a.content)))
                                \o Chars("-word seed phrase redacted]")
              /\ a.type = "api_key" =>
                    \E provider \in {Chars("Infura"), Chars("Alchemy"), Chars("Etherscan")} :
                        a.summary = <<"[">> \o provider
                                    \o Chars(" API key redacted - ") \o chars
              /\ a.type = "ethereum_keystore" =>
                    /\ SubSeq(a.summary, 1, Len(keystore)) = keystore
                    /\ Contains(a.content,
                                SubSeq(a.summary, Len(keystore) + 1, Len(a.summary)))

\* C15 happens: two API keys of the same length came back from one document
\* with different summaries, each naming its provider
C15_TwoProvidersSameLength ==
    /\ Extracted
    /\ \E j, k \in DOMAIN extraction.returned :
          /\ extraction.returned[j].type = "api_key"
          /\ extraction.returned[k].type = "api_key"
          /\ Len(extraction.returned[j].content) = Len(extraction.returned[k].content)
          /\ extraction.returned[j].summary # extraction.returned[k].summary

\* C16: within one call no two returned artifacts have the same hash,
\* whatever families they come from; every match of the families is
\* represented by exactly one artifact with its hash, the later matches
\* with that hash being dropped.
C16_NoDuplicateHashInCall ==
    /\ \A j, k \in DOMAIN extraction.returned :
          j # k => extraction.returned[j].hash # extraction.returned[k].hash
    /\ Extracted =>
          \A m \in DOMAIN extraction.html_content.matches :
              Cardinality({k \in DOMAIN extraction.returned :
                              extraction.returned[k].hash =
                                  Normalized(extraction.html_content.matches[m].content)}) = 1

\* C16 happens: a document gave the same key twice in different case, and
\* an address and keys from three patterns; the second spelling was dropped
C16_SecondSpellingDropped ==
    /\ Extracted
    /\ extraction.html_content = DOC_KEYS
    /\ Len(DOC_KEYS.matches) = 4
    /\ Len(extraction.returned) = 3
    /\ \E k \in DOMAIN extraction.returned : extraction.returned[k].content = KEY_QUOTED
    /\ \A k \in DOMAIN extraction.returned :
          extraction.returned[k].content # Lower(KEY_QUOTED)

\* what identifies an artifact: its hash, type and score
Identities(artifacts) ==
    {<<artifacts[k].hash, artifacts[k].type, artifacts[k].score>> :
        k \in DOMAIN artifacts}

C18_DiscoveriesOnlyAppended ==
    [][/\ Len(discoveries') >= Len(discoveries)
       /\ SubSeq(discoveries', 1, Len(discoveries)) = discoveries]_vars

\* C18 happens: an artifact found in a later iteration duplicated the
\* discovery of an earlier iteration, which is still in the list
C18_DuplicateOfEarlierIteration ==
    \E k \in DOMAIN discoveries :
        /\ discoveries[k].iteration < current_iteration
        /\ \E content \in trace.duplicates : Normalized(content) = discoveries[k].id

\* C19: the alias set contains the entity from the start and only grows;
\* an element is added only as the content of a discovery of type username,
\* alias or wallet_address appended in the same step, never for an artifact
\* that was rejected or turned down as a duplicate.
C19_AliasesGrowWithNamedDiscoveries ==
    /\ ENTITY \in entity_aliases
    /\ [][/\ entity_aliases \subseteq entity_aliases'
           /\ ENTITY \in entity_aliases'
           /\ \A alias \in entity_aliases' \ entity_aliases :
                 \E k \in (Len(discoveries) + 1)..Len(discoveries') :
                     /\ discoveries'[k].content = alias
                     /\ discoveries'[k].type \in {"username", "alias", "wallet_address"}]_vars

\* C19 happens: an address became an alias, its respelling was turned down
\* as a duplicate and did not, and a seed phrase was accepted and did not
C19_AddressAliasOnly ==
    /\ ADDR_LOWER \in entity_aliases
    /\ ADDR_UPPER \in trace.duplicates
    /\ ADDR_UPPER \notin entity_aliases
    /\ \E k \in DOMAIN discoveries :
          /\ discoveries[k].type = "seed_phrase"
          /\ discoveries[k].content \notin entity_aliases

\* C20: dispatching a target whose type is none of website, search,
\* wayback, github returns no discoveries, calls no collaborator, leaves the
\* frontier, the visited set, the discoveries and the alias set as they
\* were, and does not end the loop: control goes back to the loop's guard.
C20_UnknownKindIsNoOp ==
    [][(pc = "dispatch" /\ target.type \notin KNOWN_TYPES) =>
          /\ new_discoveries' = <<>>
          /\ trace'.fetches = 0 /\ trace'.listings = 0
          /\ trace'.searches = 0 /\ trace'.llm_calls = 0
          /\ trace'.failures = 0
          /\ research_queue' = research_queue
          /\ investigated_urls' = investigated_urls
          /\ discoveries' = discoveries
          /\ entity_aliases' = entity_aliases
          /\ pc' = "check"
          /\ stop_reason' = "none"]_vars

\* C20 happens: a target of an unknown type was dispatched while there were
\* discoveries and targets in the frontier, and the loop is back at its guard
C20_UnknownKindDispatched ==
    /\ pc = "check"
    /\ target.type \notin KNOWN_TYPES \cup {"none"}
    /\ VisitedKey(target) \in dispatched
    /\ new_discoveries = <<>>
    /\ discoveries # <<>>
    /\ research_queue # <<>>
    /\ stop_reason = "none"

-----------------------------------------------------------------------------
\* the website target for the locator of a repository target
AsWebsite(t) == [t EXCEPT !.type = "website"]

\* C21: dispatching a github target whose locator is not yet visited fetches
\* the locator and leaves the discoveries, the discoveries of the iteration and
\* the visited set as the dispatch of a website target for that locator would,
\* for some answer of the site.
C21_GithubDispatchedAsWebsite ==
    [][(/\ pc = "dispatch"
        /\ target.type = "github"
        /\ target.url # NONE
        /\ target.url \notin investigated_urls)
       => /\ trace'.fetches >= 1
          /\ \E world \in Worlds(AsWebsite(target)) :
                LET r == _execute_investigation(StartAgent, AsWebsite(target), world,
                                                current_iteration)
                IN  /\ discoveries' = r.a.discoveries
                    /\ new_discoveries' = r.out
                    /\ investigated_urls' = r.a.investigated_urls]_vars

-----------------------------------------------------------------------------
\* the targets a step puts into the queue
InsertedNow == {research_queue'[k] : k \in {i \in DOMAIN research_queue' :
                                               research_queue'[i].seq >= trace.inserted}}

\* the tiers as the description orders them, and as the code assigns them
DescribedTier(type) ==
    CASE type = "website" -> 4 [] type = "search" -> 3
      [] type = "wayback" -> 2 [] type = "github" -> 1
AssignedTier(type) ==
    CASE type = "website" -> 3 [] type = "search" -> 2
      [] type = "github" -> 2 [] type = "wayback" -> 1

\* C22 (as stated): among the targets of one advisory response, in both
\* consultations, a website suggestion has a higher priority than a search
\* query, a search query than a history suggestion, a history suggestion than
\* a repository suggestion.
C22_PrioritiesFollowDescribedTiers ==
    [][(pc \in {"consult", "leads"})
       => (\A t1, t2 \in InsertedNow :
              DescribedTier(t1.type) > DescribedTier(t2.type)
              => t1.priority > t2.priority)]_vars

\* C22 (amended): among the targets of one advisory response, in both
\* consultations, website suggestions are above search queries and repository
\* suggestions, which share one priority, and these are above history
\* suggestions.
C22_PrioritiesFollowAssignedTiers ==
    [][(pc \in {"consult", "leads"})
       => (\A t1, t2 \in InsertedNow :
              /\ AssignedTier(t1.type) > AssignedTier(t2.type)
                 => t1.priority > t2.priority
              /\ AssignedTier(t1.type) = AssignedTier(t2.type)
                 => t1.priority = t2.priority)]_vars

\* a consultation after discoveries has just put one target of each of the four
\* categories into the queue
C22_FourCategoriesFromOneResponse ==
    /\ pc = "check"
    /\ trace.llm_calls = 1
    /\ new_discoveries # <<>>
    /\ \E w, s, h, g \in {research_queue[k] : k \in DOMAIN research_queue} :
          /\ w.type = "website" /\ w.seq = trace.inserted - 4 /\ w.priority = 9
          /\ s.type = "search" /\ s.seq = trace.inserted - 3 /\ s.priority = 8
          /\ h.type = "wayback" /\ h.seq = trace.inserted - 2 /\ h.priority = 7
          /\ g.type = "github" /\ g.seq = trace.inserted - 1 /\ g.priority = 8

-----------------------------------------------------------------------------
\* C23: whatever the advisory answers, the text _extract_json returns is
\* syntactically valid JSON (the empty object when no strategy finds any).
C23_ExtractedJsonIsValid ==
    trace.json_str \in {"none", "value", "object"}

-----------------------------------------------------------------------------
C25_ConsultedAfterEveryDispatch ==
    [][(pc = "dispatch") => pc' = "consult"]_vars

\* C25 (amended): after a dispatch the advisory is consulted exactly when the
\* dispatch produced at least one discovery, and its suggestions are then
\* merged into the frontier; a dispatch without discoveries ends the iteration
\* without any call of the advisory and with the frontier as the dispatch
\* left it.
C25_ConsultedOnlyAfterDiscoveries ==
    [][/\ (pc = "dispatch")
          => /\ trace'.llm_calls = 0
             /\ IF new_discoveries' # <<>> THEN pc' = "consult" ELSE pc' = "check"
       /\ (pc = "consult")
          => /\ new_discoveries # <<>>
             /\ trace'.llm_calls = 1
             /\ \A k \in DOMAIN research_queue :
                   \E j \in DOMAIN research_queue' : research_queue'[j] = research_queue[k]
             /\ \A t \in InsertedNow : t.priority \in {7, 8, 9}]_vars

\* a dispatch that fetched a page and found nothing ended its iteration
\* without a consultation
C25_DispatchWithoutDiscoveriesNotConsulted ==
    /\ pc = "check"
    /\ target.type = "website"
    /\ trace.fetches = 1
    /\ trace.fetch_failures = 0
    /\ new_discoveries = <<>>
    /\ trace.llm_calls = 0
    /\ research_queue # <<>>

\* the 'investigation' records among the records of a step
InvestigationRecords(log) == SelectSeq(log, LAMBDA e : e.event = "investigation")

\* C26 (as stated): every iteration that pops and dispatches a target appends
\* exactly one 'investigation' record for that target, iterations without
\* discoveries included (an iteration ends with the step that leads back to
\* the loop guard).
C26_OneInvestigationRecordPerDispatch ==
    [][(pc \in {"dispatch", "consult"} /\ pc' = "check")
       => InvestigationRecords(trace'.log)
             = <<LogRecord("investigation", VisitedKey(target))>>]_vars

\* C26 (amended): an iteration that dispatches a target appends exactly one
\* 'investigation' record for that target, after the consultation, when the
\* dispatch produced at least one discovery, and no record at all when it
\* produced none.
C26_InvestigationRecordOnlyWithDiscoveries ==
    [][/\ (pc = "dispatch") => trace'.log = <<>>
       /\ (pc = "consult")
          => /\ new_discoveries # <<>>
             /\ InvestigationRecords(trace'.log)
                   = <<LogRecord("investigation", VisitedKey(target))>>
             /\ trace'.log[Len(trace'.log)].event = "investigation"]_vars

\* an iteration dispatched a search, found results and no discovery, and
\* ended without a record in the research log
C26_DispatchWithoutRecord ==
    /\ pc = "check"
    /\ target.type = "search"
    /\ trace.searches = 1
    /\ trace.failures = 0
    /\ new_discoveries = <<>>
    /\ trace.log = <<>>

\* C27: the idle counter counts the most recent consecutive iterations without
\* a new discovery: an iteration whose dispatch lengthened the list of
\* discoveries sets it to 0, an iteration that found the frontier empty or
\* whose dispatch left the list as it was adds exactly 1, no other step of an
\* iteration changes it, and it stays between 0 and max_idle_iterations.
C27_IdleCounterCountsBarrenIterations ==
    /\ [](0 <= idle_iterations /\ idle_iterations <= max_idle_iterations)
    /\ [][/\ (pc = "pop")
             => /\ discoveries' = discoveries
                /\ idle_iterations' = IF research_queue = <<>>
                                       THEN idle_iterations + 1 ELSE idle_iterations
          /\ (pc = "dispatch" /\ pc' # "crashed")
             => IF Len(discoveries') > Len(discoveries)
                THEN idle_iterations' = 0
                ELSE discoveries' = discoveries
                     /\ idle_iterations' = idle_iterations + 1
          /\ (pc \in {"init", "check", "leads", "consult", "report"})
             => /\ discoveries' = discoveries
                /\ idle_iterations' = idle_iterations]_vars

\* after at least one dispatch without discoveries, a later dispatch produced
\* the first discoveries of the run and the idle counter is back at 0
C27_ResetAfterBarrenIterations ==
    /\ pc = "check"
    /\ Cardinality(dispatched) >= 2
    /\ new_discoveries # <<>>
    /\ discoveries = new_discoveries
    /\ idle_iterations = 0

\* C28: whichever condition ends the loop (iteration limit, idle limit at the
\* loop guard or inside an idle iteration, time limit), the loop is left for
\* the report only, the report is generated exactly once, after the last
\* iteration, and after it no target is popped or dispatched and no iteration
\* is started.
C28_ReportGeneratedOnceAfterLoop ==
    /\ [](reports = IF pc = "done" THEN 1 ELSE 0)
    /\ [](pc \in {"report", "done"}
          <=> stop_reason \in {"iterations", "idle", "time"})
    /\ [][/\ (pc = "report") => (pc' = "done" /\ reports' = reports + 1)
          /\ (pc = "done")
             => /\ pc' = "done"
                /\ UNCHANGED <<research_queue, dispatched, current_iteration,
                               discoveries, target, reports>>]_vars

\* the run had dispatched targets, the time limit ended the loop with targets
\* still in the frontier, and the report has been generated
C28_ReportedAfterTimeLimit ==
    /\ pc = "done"
    /\ reports = 1
    /\ stop_reason = "time"
    /\ dispatched # {}
    /\ research_queue # <<>>

\* the targets in the queue after a step that the step put there, in the
\* order of their insertion numbers
PushedNow == SelectSeq(research_queue', LAMBDA t : t.seq >= trace.inserted)

\* how often a locator occurs among the locators of a sequence of targets or
\* in a sequence of locators
TimesPushed(url, targets) == Len(SelectSeq(targets, LAMBDA t : t.url = url))
TimesFound(url, urls) == Len(SelectSeq(urls, LAMBDA u : u = url))

\* C29: the dispatch of a search target returns no discoveries and leaves the
\* list of discoveries unchanged; the targets it pushes are, one for one, the
\* locators among the first ten results that are not visited, each as a
\* website target whose priority is the search target's priority minus 1 and
\* whose historical checking is what the interesting-domain test says for the
\* locator.
C29_SearchPushesItsFirstTenResults ==
    [][(pc = "dispatch" /\ target.type = "search")
       => /\ new_discoveries' = <<>>
          /\ discoveries' = discoveries
          /\ LET first_ten == SubSeq(trace'.results, 1, Min(10, Len(trace'.results)))
                 fresh == SelectSeq(first_ten,
                              LAMBDA u : u # NONE /\ u \notin investigated_urls)
             IN  /\ Len(PushedNow) = Len(fresh)
                 /\ Len(PushedNow) <= 10
                 /\ \A k \in DOMAIN fresh :
                       TimesPushed(fresh[k], PushedNow) = TimesFound(fresh[k], fresh)
                 /\ \A k \in DOMAIN PushedNow :
                       /\ PushedNow[k].type = "website"
                       /\ PushedNow[k].priority = target.priority - 1
                       /\ PushedNow[k].use_wayback
                             = _should_check_wayback(PushedNow[k].url)]_vars

\* a search returned eleven results and the last target pushed in that step
\* is a website one priority below the search
C29_SearchWithElevenResults ==
    /\ pc = "check"
    /\ target.type = "search"
    /\ Len(trace.results) > 10
    /\ new_discoveries = <<>>
    /\ \E k \in DOMAIN research_queue :
          /\ research_queue[k].seq = trace.inserted - 1
          /\ research_queue[k].type = "website"
          /\ research_queue[k].priority = target.priority - 1

\* a dispatch of a website target that fetched its page, and nothing else,
\* with success
FetchedSuccessfully ==
    /\ pc = "dispatch"
    /\ target.type = "website"
    /\ trace'.fetches = 1
    /\ trace'.fetch_failures = 0
    /\ trace'.listings = 0

\* C30: when a website target is fetched successfully, then with historical
\* checking requested and a locator that is not an archive URL, exactly one
\* history target for the same locator is pushed, with priority exactly 2
\* below the website target's, unless the history key of the locator
\* is already visited, in which case nothing is pushed; without historical
\* checking requested nothing is pushed.
C30_HistoryFollowUpTwoBelow ==
    [][FetchedSuccessfully
       => IF target.use_wayback /\ ~IsArchiveUrl(target.url)
             /\ ("wayback:" \o target.url) \notin investigated_urls
          THEN /\ Len(PushedNow) = 1
               /\ PushedNow[1].type = "wayback"
               /\ PushedNow[1].url = target.url
               /\ PushedNow[1].priority = target.priority - 2
               /\ PushedNow[1].priority < target.priority
          ELSE PushedNow = <<>>]_vars

\* a website target with historical checking was fetched and its history
\* target is in the frontier, two priorities below
C30_HistoryTargetPushed ==
    /\ pc \in {"consult", "check"}
    /\ target.type = "website"
    /\ target.use_wayback
    /\ trace.fetches = 1
    /\ trace.fetch_failures = 0
    /\ \E k \in DOMAIN research_queue :
          /\ research_queue[k].seq = trace.inserted - 1
          /\ research_queue[k].type = "wayback"
          /\ research_queue[k].url = target.url
          /\ research_queue[k].priority = target.priority - 2

\* C31: from a list of more than 5 snapshots exactly 5 pairwise distinct ones
\* are selected: the one with the smallest timestamp, the one with the largest,
\* and 3 of the list whose timestamps lie strictly between those two.
C31_FiveWithEarliestAndLatest ==
    Len(trace.snapshots) > 5
    => /\ Len(trace.selected) = 5
       /\ \A i, j \in 1..5 : i # j => trace.selected[i] # trace.selected[j]
       /\ \A i \in 1..5 :
             \E j \in DOMAIN trace.snapshots : trace.selected[i] = trace.snapshots[j]
       /\ \A j \in DOMAIN trace.snapshots :
             /\ ~StrLess(trace.snapshots[j].timestamp, trace.selected[1].timestamp)
             /\ ~StrLess(trace.selected[2].timestamp, trace.snapshots[j].timestamp)
       /\ \A i \in 3..5 :
             /\ StrLess(trace.selected[1].timestamp, trace.selected[i].timestamp)
             /\ StrLess(trace.selected[i].timestamp, trace.selected[2].timestamp)

\* a listing of six captured versions, not in the order of their timestamps,
\* was sampled: the capture of 2013 first, the capture of 2023 second
C31_SampledSixSnapshots ==
    /\ Len(trace.snapshots) = 6
    /\ trace.snapshots[1].capture = 1
    /\ Len(trace.selected) = 5
    /\ trace.selected[1].capture = 5
    /\ trace.selected[2].capture = 3

C33_ReturnedTargetsAreUnvisited ==
    [][(pc \in {"consult", "leads"})
       => /\ trace'.dropped = {}
          /\ investigated_urls' = investigated_urls
          /\ \A t \in InsertedNow :
                /\ VisitedKey(t) \in trace'.offered
                /\ VisitedKey(t) \notin investigated_urls
          /\ \A key \in trace'.offered \cap investigated_urls :
                \A t \in InsertedNow : VisitedKey(t) # key]_vars

\* a consultation suggested something already visited along with something
\* new: the new one is in the frontier, the visited one is not
C33_VisitedSuggestionNotReturned ==
    /\ pc = "check"
    /\ trace.llm_calls = 1
    /\ trace.advice = "usable"
    /\ trace.dropped = {}
    /\ \E key \in trace.offered :
          /\ key \in investigated_urls
          /\ \A k \in DOMAIN research_queue : VisitedKey(research_queue[k]) # key
    /\ \E key \in trace.offered :
          /\ key \notin investigated_urls
          /\ \E k \in DOMAIN research_queue :
                /\ VisitedKey(research_queue[k]) = key
                /\ research_queue[k].seq = trace.inserted - 1

\* C34: the dispatch of a website target whose locator is no calendar
\* reference and is in the visited set makes no fetch, returns no discoveries
\* and leaves the visited set, the frontier and the discoveries as they were;
\* a dispatch that does fetch its locator finds it unvisited and records it,
\* and no step removes anything from the visited set: at most one website
\* dispatch of a locator fetches it.
C34_VisitedWebsiteIsNotFetchedAgain ==
    [][/\ investigated_urls \subseteq investigated_urls'
       /\ (pc = "dispatch" /\ target.type = "website" /\ ~IsCalendarUrl(target.url))
          => /\ (target.url \in investigated_urls)
                => /\ trace'.fetches = 0
                   /\ trace'.listings = 0
                   /\ new_discoveries' = <<>>
                   /\ UNCHANGED <<investigated_urls, research_queue, discoveries>>
             /\ (trace'.fetches - trace'.snapshot_fetches > 0)
                => /\ trace'.fetches - trace'.snapshot_fetches = 1
                   /\ target.url \notin investigated_urls
                   /\ target.url \in investigated_urls']_vars

\* a website target was dispatched a second time for the same locator and
\* nothing was fetched
C34_SecondDispatchOfALocator ==
    /\ pc = "check"
    /\ target.type = "website"
    /\ ~IsCalendarUrl(target.url)
    /\ target.url \in investigated_urls
    /\ trace.fetches = 0
    /\ trace.llm_calls = 0
    /\ current_iteration >= 2
    /\ new_discoveries = <<>>

\* the adjustment the controller is said to make to an artifact of this type
\* and content, compared with this alias set
SaidAdjustment(type, content, aliases) ==
    (IF type \in {"username", "alias", "wallet_address", "private_key"} THEN 2 ELSE 0)
    + (IF \E alias \in aliases : Contains(Lower(content), Lower(alias)) THEN 1 ELSE 0)

\* C35: for every artifact _process_artifacts goes through, the final score is
\* the extraction score plus 2 for the types username, alias, wallet_address
\* and private_key, plus 1 when the content contains, whatever the case, a
\* member of the alias set; the adjustment is one of 0, 1, 2, 3; and the score
\* of every discovery accepted in the step is the final score of its artifact.
C35_ScoreAdjustedByTypeAndAlias ==
    /\ \A e \in trace.scored :
          /\ e.final = e.extraction + SaidAdjustment(e.type, e.content, e.aliases)
          /\ e.final - e.extraction \in {0, 1, 2, 3}
    /\ (pc = "consult")
       => \A k \in DOMAIN new_discoveries :
             \E e \in trace.scored :
                /\ e.type = new_discoveries[k].type
                /\ e.content = new_discoveries[k].content
                /\ e.final = new_discoveries[k].score
                /\ e.final > 0

\* one dispatch accepted a private key with the boost of its type alone and
\* went through an artifact whose content names an alias
C35_BoostedByTypeAndByAlias ==
    /\ pc = "consult"
    /\ \E k \in DOMAIN new_discoveries :
          /\ new_discoveries[k].type = "private_key"
          /\ \E e \in trace.scored :
                /\ e.content = new_discoveries[k].content
                /\ e.final = new_discoveries[k].score
                /\ e.final - e.extraction = 2
    /\ \E e \in trace.scored : e.final - e.extraction \in {1, 3}

\* domain is the listed domain or a dot-separated subdomain of it
IsDomainOrSubdomain(domain, listed) ==
    domain = listed \/ EndsWith(domain, <<".">> \o listed)

\* the score with the trusted bonus and the community penalty granted to
\* listed domains and their subdomains only
ScoreWithDomainBoundary(url, content, date) ==
    LET domain == Netloc(url)
    IN  (IF \E t \in TRUSTED_DOMAINS : IsDomainOrSubdomain(domain, t) THEN 3 ELSE 0)
        + (IF EndsWith(domain, <<".", "o", "r", "g">>) THEN 1 ELSE 0)
        + (IF \E c \in COMMUNITY_DOMAINS : IsDomainOrSubdomain(domain, c) THEN -5 ELSE 0)
        + (IF date # <<>> /\ StrLess(date, DATE_CUTOFF) THEN 1 ELSE 0)
        + (IF HAS_WARNING[content] THEN -10 ELSE 0)
        + (IF Len(content) > 20 THEN 2 ELSE 0)

\* C36 (as stated): the score of every extracted artifact holds the +3 trusted
\* bonus and the -5 community penalty only when the domain of its locator is
\* a listed domain or a dot-separated subdomain of one; a domain that merely
\* ends with a listed string ('notethereum.org') gets no bonus.
C36_TrustOnlyForListedDomains ==
    \A k \in DOMAIN extraction.returned :
        extraction.returned[k].score
            = ScoreWithDomainBoundary(extraction.url, extraction.returned[k].content,
                                      extraction.date)

\* a dispatch of the kinds that cannot yield a discovery: a search, a target
\* of unknown kind, a target whose key is already visited (a calendar
\* reference has no key), a website fetch that failed with no history to fall
\* back on
YieldsNothing ==
    \/ target.type = "search"
    \/ target.type \notin KNOWN_TYPES
    \/ /\ target.type \in {"website", "wayback", "github"}
       /\ ~(target.type = "website" /\ IsCalendarUrl(target.url))
       /\ VisitedKey(target) \in investigated_urls
    \/ /\ target.type = "website"
       /\ trace'.fetch_failures = 1
       /\ trace'.listings = 0

\* C37: every dispatch that returns no new discovery adds exactly 1 to the
\* idle counter, as an iteration with an empty frontier does, and every
\* search, every target of unknown kind, every already visited target and
\* every failed fetch is such a dispatch; the frontier plays no part in it,
\* so the idle guard can end the run with targets still in the frontier.
C37_BarrenDispatchCountsAsIdle ==
    [][/\ (pc = "dispatch" /\ pc' # "crashed")
          => /\ YieldsNothing => new_discoveries' = <<>>
             /\ (new_discoveries' = <<>>)
                => /\ idle_iterations' = idle_iterations + 1
                   /\ pc' = "check"
       /\ (pc = "pop" /\ research_queue = <<>>)
          => idle_iterations' = idle_iterations + 1
       /\ (pc = "check" /\ idle_iterations >= max_idle_iterations
           /\ current_iteration < max_iterations)
          => (pc' = "report" /\ stop_reason' = "idle"
              /\ research_queue' = research_queue)]_vars

\* the idle guard ended a run in which every iteration dispatched a target,
\* with targets left in the frontier
C37_IdleStopWithTargetsLeft ==
    /\ pc = "report"
    /\ stop_reason = "idle"
    /\ ~trace.broke
    /\ research_queue # <<>>
    /\ discoveries = <<>>
    /\ Cardinality(dispatched) = current_iteration
    /\ current_iteration = max_idle_iterations

\* C38: an artifact skipped because its final score is <= 0 leaves the
\* discoveries, the alias set and what the duplicate test looks at unchanged:
\* a dispatch that skipped every artifact it met changes neither list nor
\* set, and an artifact with a positive final score whose content was skipped
\* earlier in the run is accepted as a new discovery, or else was turned down
\* by the duplicate test because an accepted discovery holds its content or
\* its id; no discovery is ever held with a score <= 0.
C38_SkippedArtifactLeavesNoTrace ==
    [][(pc = "dispatch")
       => /\ (\A e \in trace'.scored : e.final <= 0)
             => /\ discoveries' = discoveries
                /\ entity_aliases' = entity_aliases
                /\ new_discoveries' = <<>>
          /\ \A e \in trace'.scored :
                (e.final > 0 /\ e.content \in low_scored)
                => \/ \E k \in DOMAIN new_discoveries' :
                         /\ new_discoveries'[k].content = e.content
                         /\ new_discoveries'[k].score = e.final
                   \/ /\ e.content \in trace'.duplicates
                      /\ \E k \in DOMAIN discoveries' :
                            /\ \/ discoveries'[k].content = e.content
                               \/ discoveries'[k].id = generate_hash(e.content)
                            /\ discoveries'[k].score > 0
          /\ \A k \in DOMAIN discoveries' : discoveries'[k].score > 0]_vars

\* a content skipped for its score at one locator was accepted as a new
\* discovery when a later dispatch met it at another
C38_AcceptedAfterBeingSkipped ==
    /\ pc = "consult"
    /\ \E k \in DOMAIN new_discoveries :
          /\ new_discoveries[k].content \in low_scored
          /\ new_discoveries[k].content \notin trace.rejected
          /\ new_discoveries[k].score > 0

\* the locator whose history a dispatch of a website target falls back to
FallbackLocator ==
    IF IsCalendarUrl(target.url) THEN CalendarMatch(target.url).original_url
    ELSE target.url

\* this dispatch of a website target takes the historical fallback: the fetch
\* of a target with historical checking came back empty, or the snapshot
\* fetch of a calendar reference came back empty or raised
TakesFallback ==
    /\ pc = "dispatch"
    /\ target.type = "website"
    /\ IF IsCalendarUrl(target.url) THEN trace'.direct \in {"empty", "raise"}
       ELSE target.use_wayback /\ trace'.direct = "empty"

\* C39: the historical fallback of a website or calendar dispatch records the
\* key 'wayback:' + locator, and returns no discoveries without requesting a
\* snapshot list when that key was visited already; once the key is visited,
\* no step puts a history target for the locator into the frontier, whatever
\* its year range, and the dispatch of one that is in the frontier requests
\* and fetches nothing and changes nothing.
C39_FallbackRecordsHistoryKey ==
    [][/\ TakesFallback
          => LET key == "wayback:" \o FallbackLocator
             IN  /\ key \in investigated_urls'
                 /\ IF key \in investigated_urls
                    THEN /\ trace'.listings = 0
                         /\ trace'.snapshot_fetches = 0
                         /\ new_discoveries' = <<>>
                    ELSE trace'.listings = 1
       /\ \A t \in InsertedNow :
             (t.type = "wayback") => VisitedKey(t) \notin investigated_urls'
       /\ (pc = "dispatch" /\ target.type = "wayback"
           /\ VisitedKey(target) \in investigated_urls)
          => /\ trace'.listings = 0
             /\ trace'.fetches = 0
             /\ new_discoveries' = <<>>
             /\ UNCHANGED <<investigated_urls, research_queue, discoveries>>]_vars

\* no history target was dispatched for the locator, a fallback recorded its
\* key, and the history target a later successful fetch of the locator
\* pushed, with the default year range, was dropped
C39_HistoryTargetDroppedAfterFallback ==
    /\ pc \in {"consult", "check"}
    /\ target.type = "website"
    /\ target.url = U_ETH
    /\ trace.direct = "ok"
    /\ ("wayback:" \o U_ETH) \in investigated_urls
    /\ ("wayback:" \o U_ETH) \notin dispatched
    /\ \E t \in trace.dropped :
          /\ t.type = "wayback"
          /\ t.url = U_ETH
          /\ t.year_range = DefaultYearRange

\* the types whose content no prompt may hold
SECRET_TYPES == {"private_key", "seed_phrase", "api_key"}

\* C40: no prompt sent to the advisory (next steps, new leads, final summary)
\* holds the raw content of a private_key, seed_phrase or api_key discovery:
\* neither a summary nor an alias of the prompt's context contains the
\* content of such a discovery, and the alias set holds no such content
C40_NoPromptHoldsASecret ==
    \A k \in DOMAIN discoveries :
        discoveries[k].type \in SECRET_TYPES =>
            /\ \A i \in DOMAIN trace.context.lines :
                   ~Contains(trace.context.lines[i].summary, discoveries[k].content)
            /\ \A alias \in trace.context.aliases :
                   ~Contains(alias, discoveries[k].content)
            /\ discoveries[k].content \notin entity_aliases
====
